---- MODULE Spec2Model ----
(***************************************************************************)
(* Model of the fsm-orchestrator workflow engine:                          *)
(*   src/src/orchestrator/Workflow.ts   (class Workflow)                   *)
(*   src/unnamed/part_003               (class Orchestrator)               *)
(*   src/unnamed/part_002               (class Action)                     *)
(* A handleEvent call is an async function: it runs synchronously up to    *)
(* its first await and is resumed later, so a call is modelled as three    *)
(* steps (start, resumption of Workflow.handleEvent after the awaited      *)
(* action.invoke, resumption of Orchestrator.handleEvent after the awaited *)
(* Workflow.handleEvent), and calls the caller did not await interleave.   *)
(* Spec is the engine under arbitrary callers and action bodies; ProcSpec  *)
(* is the procurement example (src/unnamed/part_000,                       *)
(* src/examples/procurement); DetSpec makes runs of Workflow.handleEvent   *)
(* on two Workflow objects to compare them; WfSpec calls the methods of a  *)
(* Workflow object directly; DispSpec is the status-based Orchestrator     *)
(* (src/unnamed/part_004) in its usage example.                            *)
(***************************************************************************)
EXTENDS Integers, Sequences, FiniteSets, TLC

(* ------------------------------ bounds --------------------------------- *)

\* handleEvent calls made in one run
MaxCalls == 2
\* tasks created in one run
MaxTasks == 2
\* registerAction / addTrigger calls made in one run
MaxConfigOps == 2

(* --------------------------- values and inputs -------------------------- *)

\* IState.key values used by the workflows of the model
StateKeys == {"s0", "s1"}
\* IState.data values; "{}" is the empty record
DataVals == {"{}", "d1"}
\* `undefined` for an optional IState
NoState == [key |-> "undefined", data |-> "undefined"]
States == [key : StateKeys, data : DataVals]

\* IEvent.key values delivered by callers
EventKeys == {"e1", "e2"}
Events == [key : EventKeys]

\* `undefined` for an optional string
NoKey == "undefined"
\* `undefined` for an optional message; messages are tuples of their parts
NoMsg == <<>>

\* Action objects the callers construct (src/unnamed/part_002 constructor):
\* a1 and a1b are two objects with the same key.
ActionObjs == {"a0", "a1", "a2", "a3", "a1b", "aThrow"}

\* the Action objects of the procurement example (src/examples/procurement/actions.ts)
ProcActionObjs == {"processRfqAction", "notifyRoleSelectionAction"}

ActionKey(a) ==
  CASE a = "a0" -> "act0"
    [] a = "a1" -> "act1"
    [] a = "a1b" -> "act1"
    [] a = "a2" -> "act2"
    [] a = "a3" -> "act3"
    [] a = "aThrow" -> "act4"
    [] a = "processRfqAction" -> "process_rfq"
    [] a = "notifyRoleSelectionAction" -> "notify_role_selection"

\* cost each action body reports in its result
ActionCost(a) ==
  CASE a = "a0" -> 3
    [] a = "a1" -> 10
    [] a = "a1b" -> 1
    [] a = "a2" -> 2
    [] a = "a3" -> 5
    [] a = "aThrow" -> 7
    [] a = "processRfqAction" -> 10
    [] a = "notifyRoleSelectionAction" -> 2

\* the predicate passed as canBeInvoked to each Action
ActionGuard(a) ==
  CASE a = "a0" -> "always"
    [] a = "a1" -> "always"
    [] a = "a1b" -> "always"
    [] a = "a2" -> "always"
    [] a = "a3" -> "isS1"
    [] a = "aThrow" -> "throws"
    [] a = "processRfqAction" -> "isRfqUploaded"
    [] a = "notifyRoleSelectionAction" -> "isProcessing"

\* Mutant of EvalPredicate: the test for the processing state always holds.
EvalPredicateLoose(p, state, event) ==
  CASE p = "always" -> "true"
    [] p = "never" -> "false"
    [] p = "isS0" -> IF state.key = "s0" THEN "true" ELSE "false"
    [] p = "isS1" -> IF state.key = "s1" THEN "true" ELSE "false"
    [] p = "throws" -> "throw"
    [] p = "isRfqUploaded" -> IF state.key = "rfq_uploaded" THEN "true" ELSE "false"
    [] p = "isProcessing" -> "true"

\* the key of the emitEvent descriptor passed to each Action (NoKey = none):
\* a2 emits the event it is itself bound to
ActionEmitEvent(a) == IF a = "a2" THEN "e1" ELSE NoKey

\* The predicates over (state, event) that callers pass as conditions and
\* guards; the value is "true", "false" or "throw" (the predicate raises).
EvalPredicate(p, state, event) ==
  CASE p = "always" -> "true"
    [] p = "never" -> "false"
    [] p = "isS0" -> IF state.key = "s0" THEN "true" ELSE "false"
    [] p = "isS1" -> IF state.key = "s1" THEN "true" ELSE "false"
    [] p = "throws" -> "throw"
    [] p = "isRfqUploaded" -> IF state.key = "rfq_uploaded" THEN "true" ELSE "false"
    [] p = "isProcessing" -> IF state.key = "processing" THEN "true" ELSE "false"

\* Action.canBeInvoked(state).can
canBeInvoked(a, state) == EvalPredicate(ActionGuard(a), state, [key |-> NoKey])

(* ------------------------------ results -------------------------------- *)

\* IActionLogData (src/src/types/logs.ts); absent optional fields hold the
\* undefined values above
ActionLogData(key, success, cost, msg, ns) ==
  [action_key |-> key, success |-> success, cost |-> cost, message |-> msg,
   new_state |-> ns, emitEvent |-> NoKey]

NoResult == ActionLogData(NoKey, FALSE, 0, NoMsg, NoState)

InvalidStateResult == ActionLogData(NoKey, FALSE, 0, <<"Invalid state">>, NoState)

NoTriggersResult(event) ==
  ActionLogData(NoKey, FALSE, 0,
                <<"No triggers registered for event", event.key>>, NoState)

NoApplicableActionResult(event) ==
  ActionLogData(NoKey, FALSE, 0,
                <<"No valid action could be executed for event", event.key>>,
                NoState)

\* the catch block of Workflow.handleEvent: err?.message ?? default
CaughtResult(errMessage) ==
  ActionLogData(NoKey, FALSE, 0,
                IF errMessage = NoMsg THEN <<"Action execution failed">>
                ELSE errMessage,
                NoState)

\* What a call of the body of an action can produce: it is caller code, so it
\* returns an IActionLogData or raises.  outcome.threw says
\* which; errMessage is err.message (NoMsg when the thrown value has none).
Returned(value) == [threw |-> FALSE, errMessage |-> NoMsg, value |-> value]
Thrown(msg) == [threw |-> TRUE, errMessage |-> msg, value |-> NoResult]
NoOutcome == [threw |-> FALSE, errMessage |-> NoMsg, value |-> NoResult]

\* new_state as the action bodies build it: { ...state, key: k }
WithKey(state, k) == [key |-> k, data |-> state.data]

\* The bodies passed as perform to each Action, by what one call of them can do
\* (which of it happens depends on the effects the body awaits):
\*   a1  moves to s1, or reports a failure, or raises an Error;
\*   a2  moves to s0, or succeeds without a new_state, or raises a value that
\*       has no message;
\*   a3  moves to s0 without naming itself in action_key, or reports a failure
\*       without action_key, or succeeds with the empty string as action_key;
\*   processRfqAction and notifyRoleSelectionAction are the synchronous bodies
\*   of the procurement example: they move to processing and to
\*   awaiting_role_assignment;
\*   the others move to s1.
PerformOutcomes(a, state) ==
  CASE a = "a1" ->
         { Returned(ActionLogData(ActionKey(a), TRUE, ActionCost(a), NoMsg,
                                  WithKey(state, "s1"))),
           Returned(ActionLogData(ActionKey(a), FALSE, ActionCost(a), <<"failed">>,
                                  WithKey(state, "s1"))),
           Thrown(<<"boom">>) }
    [] a = "a2" ->
         { Returned(ActionLogData(ActionKey(a), TRUE, ActionCost(a), NoMsg,
                                  WithKey(state, "s0"))),
           Returned(ActionLogData(ActionKey(a), TRUE, ActionCost(a), NoMsg, NoState)),
           Thrown(NoMsg) }
    [] a = "a3" ->
         { Returned(ActionLogData(NoKey, TRUE, ActionCost(a), NoMsg,
                                  WithKey(state, "s0"))),
           Returned(ActionLogData(NoKey, FALSE, ActionCost(a), <<"failed">>, NoState)),
           Returned(ActionLogData("", TRUE, ActionCost(a), NoMsg, NoState)) }
    [] a = "processRfqAction" ->
         { Returned(ActionLogData(ActionKey(a), TRUE, ActionCost(a), NoMsg,
                                  WithKey(state, "processing"))) }
    [] a = "notifyRoleSelectionAction" ->
         { Returned(ActionLogData(ActionKey(a), TRUE, ActionCost(a), NoMsg,
                                  WithKey(state, "awaiting_role_assignment"))) }
    [] OTHER ->
         { Returned(ActionLogData(ActionKey(a), TRUE, ActionCost(a), NoMsg,
                                  WithKey(state, "s1"))) }

\* Action.invoke(state, messenger): the body's result with the action's
\* emitEvent descriptor attached; what the body raises propagates
InvokeOutcomes(a, state) ==
  { IF o.threw THEN o ELSE Returned([o.value EXCEPT !.emitEvent = ActionEmitEvent(a)]) :
      o \in PerformOutcomes(a, state) }

(* ------------------------------ workflows ------------------------------ *)

\* Workflow objects the callers construct: new Workflow(key, initialStateKey, actions).
\* w1 and w2 carry the same key.
WorkflowObjs == {"w1", "w2"}

\* the workflow of the procurement example (src/unnamed/part_000 line 33)
rfqProcurementWorkflow == "rfqProcurementWorkflow"

WorkflowKey(w) ==
  CASE w = "w1" -> "wfA"
    [] w = "w2" -> "wfA"
    [] w = rfqProcurementWorkflow -> "rfq_procurement"

initialStateKey(w) ==
  CASE w = "w1" -> "s0"
    [] w = "w2" -> "s1"
    [] w = rfqProcurementWorkflow -> "rfq_uploaded"

\* workflow keys callers pass to initTask; "wfB" is the key of no workflow
WorkflowKeys == {"wfA", "wfB"}

\* the `actions` argument of the constructor of w
ConstructorActions(w) == IF w = "w1" THEN <<"a0">> ELSE <<>>

\* (workflow, action) arguments of the registerAction calls callers make
RegisterInputs == { <<"w1", "a1">>, <<"w1", "a1b">> }

\* (workflow, eventKey, action, condition) arguments of the addTrigger calls
\* callers make
TriggerInputs ==
  { <<"w1", "e1", "a1", "always">>, <<"w1", "e1", "a2", "always">>,
    <<"w1", "e1", "a3", "always">>, <<"w1", "e1", "aThrow", "always">>,
    <<"w1", "e1", "a1b", "throws">>, <<"w1", "e2", "a1", "isS1">>,
    <<"w1", "e2", "a0", "always">> }

\* initialData arguments callers pass to initTask; "undefined" = omitted
InitialDataInputs == {"d1", "undefined"}

VARIABLES
  wfActions,            \* Workflow.actions: keys in insertion order, per workflow object
  wfConditions,         \* Workflow.conditions: event key -> triggers in insertion order
  wfState,              \* Workflow.state
  wfInitialStateData,   \* Workflow.initialStateData
  workflows,            \* Orchestrator.workflows
  tasks,                \* Orchestrator.tasks
  logs,                 \* Orchestrator.logs
  calls,                \* the handleEvent calls in flight, in the order they started
  settled,              \* the handleEvent call that settled last
  started,              \* number of handleEvent calls made
  lastCall,             \* the most recent synchronous API call and the error it threw
  configOps,            \* number of registerAction / addTrigger calls made
  _status,              \* status-based Orchestrator._status
  _memory,              \* status-based Orchestrator._memory
  _logs,                \* status-based Orchestrator._logs
  actions,              \* status-based Orchestrator.actions: key -> Action
  handlePersistentStorage, \* the arguments the persistence callback last received
  dispatches,           \* the dispatch calls in flight, in the order they started
  lastDispatch,         \* the dispatch call that settled last
  dispatched,           \* number of dispatch calls made
  dispOps               \* number of other calls made on the status-based Orchestrator

dispVars == <<_status, _memory, _logs, actions, handlePersistentStorage, dispatches,
              lastDispatch, dispatched, dispOps>>

coreVars == <<wfActions, wfConditions, wfState, wfInitialStateData, workflows, tasks,
              logs, calls, settled, started, lastCall, configOps>>

vars == <<coreVars, dispVars>>

wfVars == <<wfActions, wfConditions, wfState, wfInitialStateData>>

callVars == <<calls, settled, started>>

(* ------------- the status-based Orchestrator: its configuration -------- *)

\* type Status of the usage example
Statuses == {"idle", "running", "done"}

\* options.initialStatus
initialStatus == "idle"

\* options.finalStatuses
finalStatuses == {"done"}

\* "no entry" in the transition table, and `undefined` in an action result
NoStatus == "undefined"

\* options.transitions: the TTransitionTable of the usage example;
\* transitions[from]?.[actionKey], NoStatus where the entry is missing
transitions(from, actionKey) ==
  CASE from = "idle" /\ actionKey = "start" -> "running"
    [] from = "running" /\ actionKey = "finish" -> "done"
    [] from = "running" /\ actionKey = "stop" -> "idle"
    [] OTHER -> NoStatus

\* the memory the usage example constructs the orchestrator with
initialMemory == [count |-> 0]

\* a result without a memory field
NoMemory == <<>>

\* the Action objects handed to addAction: the three of the status example,
\* the `start` of the README (it returns memory only), one whose result has
\* neither field and no log, and one whose execute throws
DispActionObjs ==
  {"startAction", "readmeStartAction", "finishAction", "stopAction", "pingAction",
   "failAction"}

\* Action.key
DispActionKey(a) ==
  CASE a \in {"startAction", "readmeStartAction"} -> "start"
    [] a = "finishAction" -> "finish"
    [] a = "stopAction" -> "stop"
    [] a = "pingAction" -> "ping"
    [] OTHER -> "fail"

\* the keys dispatch is called with; "unknown" is never registered
DispActionKeys == {"start", "finish", "stop", "ping", "fail", "unknown"}

\* no Action under a key of the Map
NoAction == "undefined"

\* the execute function given to each Action: the TActionResult it returns
\* for (status, memory), or a throw
execute(a, status, memory) ==
  CASE a = "startAction" ->
         [threw |-> FALSE, status |-> "running", memory |-> [count |-> memory.count + 1]]
    [] a = "readmeStartAction" ->
         [threw |-> FALSE, status |-> NoStatus, memory |-> [count |-> memory.count + 1]]
    [] a = "finishAction" ->
         [threw |-> FALSE, status |-> "done", memory |-> [count |-> memory.count]]
    [] a = "stopAction" ->
         [threw |-> FALSE, status |-> "idle", memory |-> [count |-> memory.count]]
    [] a = "pingAction" ->
         [threw |-> FALSE, status |-> NoStatus, memory |-> NoMemory]
    [] OTHER ->
         [threw |-> TRUE, status |-> NoStatus, memory |-> NoMemory]

\* Action.perform(status, memory): runs execute and hands its result on
perform(a, status, memory) == execute(a, status, memory)

\* no log on the Action
NoActionLog == "undefined"

\* Action.log after perform: what generateLog produced
ActionLog(a) ==
  CASE a = "startAction" -> "Workflow started."
    [] a = "readmeStartAction" -> "Started workflow."
    [] a = "finishAction" -> "Workflow finished."
    [] a = "stopAction" -> "Workflow stopped."
    [] OTHER -> NoActionLog

\* the persistence callback before its first invocation
NotPersisted == [status |-> NoStatus, memory |-> NoMemory, logs |-> <<>>]

\* a dispatch call: the locals `action`, `from`, `defaultTo` and the result
\* perform was called for
Dispatch(actionKey, action, from, defaultTo, result, pc, error) ==
  [actionKey |-> actionKey, action |-> action, from |-> from, defaultTo |-> defaultTo,
   result |-> result, pc |-> pc, error |-> error]

NoResultYet == [threw |-> FALSE, status |-> NoStatus, memory |-> NoMemory]

NoDispatch == Dispatch(NoKey, NoAction, NoStatus, NoStatus, NoResultYet, "none", NoKey)

\* the status-based Orchestrator right after its constructor, with or
\* without a persistence callback
Constructed(withCallback) ==
  /\ _status = initialStatus
  /\ _memory = initialMemory
  /\ _logs = <<>>
  /\ actions = [k \in DispActionKeys |-> NoAction]
  /\ dispatched = 0
  /\ handlePersistentStorage = [configured |-> withCallback, last |-> NotPersisted]
  /\ dispatches = <<>>
  /\ lastDispatch = NoDispatch
  /\ dispOps = 0

(* ---- Map helpers: a Map is the sequence of its entries in insertion order *)

\* Map.has(key) on the action registry
HasAction(registry, key) == \E i \in 1..Len(registry) : ActionKey(registry[i]) = key

\* Map.has(key) on the triggers of one event
HasTrigger(eventTriggers, key) ==
  \E i \in 1..Len(eventTriggers) : ActionKey(eventTriggers[i].action) = key

(* ------------------- Workflow.registerAction / addTrigger --------------- *)

\* Workflows are built and registered when the program is set up, before the
\* first task is created and the first event delivered (src/unnamed/part_000,
\* src/examples/procurement/orchestrator.ts).
InSetup == tasks = <<>> /\ started = 0

\* Mutant of RegisterActionResult: Map.set without the has() test, so an action
\* with a key already present replaces the registered one.
RegisterActionOverwrite(registry, a) ==
  IF HasAction(registry, ActionKey(a))
  THEN [error |-> "none",
        actions |-> [i \in 1..Len(registry) |->
                       IF ActionKey(registry[i]) = ActionKey(a) THEN a ELSE registry[i]]]
  ELSE [error |-> "none", actions |-> Append(registry, a)]

\* Workflow.registerAction: the registry after the call and the error thrown
RegisterActionResult(registry, a) ==
  IF HasAction(registry, ActionKey(a))
  THEN [error |-> "ActionKeyConflict", actions |-> registry]
  ELSE [error |-> "none", actions |-> Append(registry, a)]

\* Workflow.addTrigger: registerAction first, then the lookup of the pair
AddTriggerResult(registry, conds, eventKey, a, condition) ==
  LET reg == RegisterActionResult(registry, a)
      eventTriggers == conds[eventKey]
  IN  IF reg.error # "none"
      THEN [error |-> reg.error, actions |-> registry, conditions |-> conds]
      ELSE IF HasTrigger(eventTriggers, ActionKey(a))
      THEN [error |-> "TriggerConflict", actions |-> reg.actions, conditions |-> conds]
      ELSE [error |-> "none", actions |-> reg.actions,
            conditions |-> [conds EXCEPT ![eventKey] =
                              Append(eventTriggers, [action |-> a, condition |-> condition])]]

\* a synchronous API call, its arguments and the error it threw ("none" if none)
ApiCall(op, w, eventKey, a, condition, error) ==
  [op |-> op, wf |-> w, eventKey |-> eventKey, action |-> a, condition |-> condition,
   error |-> error]

registerAction(w, a) ==
  /\ InSetup
  /\ configOps < MaxConfigOps
  /\ LET r == RegisterActionResult(wfActions[w], a)
     IN  /\ wfActions' = [wfActions EXCEPT ![w] = r.actions]
         /\ lastCall' = ApiCall("registerAction", w, NoKey, a, NoKey, r.error)
  /\ configOps' = configOps + 1
  /\ UNCHANGED <<dispVars, wfConditions, wfState, wfInitialStateData, workflows, tasks, logs,
                 callVars>>

addTrigger(w, eventKey, a, condition) ==
  /\ InSetup
  /\ configOps < MaxConfigOps
  /\ LET r == AddTriggerResult(wfActions[w], wfConditions[w], eventKey, a, condition)
     IN  /\ wfActions' = [wfActions EXCEPT ![w] = r.actions]
         /\ wfConditions' = [wfConditions EXCEPT ![w] = r.conditions]
         /\ lastCall' = ApiCall("addTrigger", w, eventKey, a, condition, r.error)
  /\ configOps' = configOps + 1
  /\ UNCHANGED <<dispVars, wfState, wfInitialStateData, workflows, tasks, logs, callVars>>

(* ------------------------- Workflow.handleEvent ------------------------- *)

\* The for-loop of Workflow.handleEvent over triggers.values(), from trigger i on:
\* condition first, then the guard; the first trigger passing both is selected.
\* condEvals / guardEvals list the triggers whose condition / guard was evaluated.
RECURSIVE ResolveFrom(_, _, _, _, _, _)
ResolveFrom(trigs, state, event, i, condEvals, guardEvals) ==
  IF i > Len(trigs)
  THEN [kind |-> "none", sel |-> 0, condEvals |-> condEvals, guardEvals |-> guardEvals]
  ELSE LET c == EvalPredicate(trigs[i].condition, state, event)
           g == canBeInvoked(trigs[i].action, state)
       IN  IF c = "throw"
           THEN [kind |-> "threw", sel |-> 0, condEvals |-> Append(condEvals, i),
                 guardEvals |-> guardEvals]
           ELSE IF c = "false"
           THEN ResolveFrom(trigs, state, event, i + 1, Append(condEvals, i), guardEvals)
           ELSE IF g = "throw"
           THEN [kind |-> "threw", sel |-> 0, condEvals |-> Append(condEvals, i),
                 guardEvals |-> Append(guardEvals, i)]
           ELSE IF g = "false"
           THEN ResolveFrom(trigs, state, event, i + 1, Append(condEvals, i),
                            Append(guardEvals, i))
           ELSE [kind |-> "invoke", sel |-> i, condEvals |-> Append(condEvals, i),
                 guardEvals |-> Append(guardEvals, i)]

\* the triggers of trigs whose condition and guard both hold in state
Passing(trigs, state, event) ==
  { i \in 1..Len(trigs) :
      /\ EvalPredicate(trigs[i].condition, state, event) = "true"
      /\ canBeInvoked(trigs[i].action, state) = "true" }

\* the triggers of trigs whose condition, or whose guard once the condition
\* holds, raises in state
Raising(trigs, state, event) ==
  { i \in 1..Len(trigs) :
      \/ EvalPredicate(trigs[i].condition, state, event) = "throw"
      \/ /\ EvalPredicate(trigs[i].condition, state, event) = "true"
         /\ canBeInvoked(trigs[i].action, state) = "throw" }

\* Mutant of Resolve: among the passing triggers the cheapest action is selected.
ResolveCheapest(trigs, state, event) ==
  LET r == ResolveFrom(trigs, state, event, 1, <<>>, <<>>)
      P == Passing(trigs, state, event)
  IN  IF r.kind = "invoke"
      THEN [r EXCEPT !.sel = CHOOSE i \in P : \A j \in P :
                       ActionCost(trigs[i].action) <= ActionCost(trigs[j].action)]
      ELSE r

\* Mutant of Resolve: the guard is not consulted, the first true condition selects.
ResolveNoGuard(trigs, state, event) ==
  LET r == ResolveFrom(trigs, state, event, 1, <<>>, <<>>)
      T == { i \in 1..Len(trigs) :
               EvalPredicate(trigs[i].condition, state, event) = "true" }
  IN  IF r.kind = "none" /\ T # {}
      THEN [r EXCEPT !.kind = "invoke", !.sel = CHOOSE i \in T : \A j \in T : i <= j]
      ELSE r

\* Mutant of Resolve: the selection rotates with the number of calls recorded,
\* so it depends on more than the state, the event and the triggers.
ResolveRotating(trigs, state, event) ==
  LET r == ResolveFrom(trigs, state, event, 1, <<>>, <<>>)
      P == Passing(trigs, state, event)
  IN  IF r.kind = "invoke" /\ Len(calls) % 2 = 1
      THEN [r EXCEPT !.sel = CHOOSE i \in P : \A j \in P : i >= j]
      ELSE r

\* the loop of Workflow.handleEvent from its first trigger
Resolve(trigs, state, event) == ResolveFrom(trigs, state, event, 1, <<>>, <<>>)

\* Mutant of WorkflowHandleEventSync: without the test for a missing state
\* the call goes on to the triggers with no state.
WorkflowHandleEventSyncNoStateTest(state, conds, event) ==
  LET trigs == conds[event.key]
      r == Resolve(trigs, state, event)
      none == [kind |-> "result", sel |-> 0, condEvals |-> <<>>, guardEvals |-> <<>>,
               result |-> NoResult]
  IN  IF Len(trigs) = 0
      THEN [none EXCEPT !.result = NoTriggersResult(event)]
      ELSE IF r.kind = "none"
      THEN [none EXCEPT !.result = NoApplicableActionResult(event),
                        !.condEvals = r.condEvals, !.guardEvals = r.guardEvals]
      ELSE [kind |-> r.kind, sel |-> r.sel, condEvals |-> r.condEvals,
            guardEvals |-> r.guardEvals, result |-> NoResult]

\* Mutant of WorkflowHandleEventSync: without the test for an empty trigger set
\* the loop runs over nothing and the call falls through to its last return.
WorkflowHandleEventSyncNoSizeTest(state, conds, event) ==
  LET trigs == conds[event.key]
      r == Resolve(trigs, state, event)
      none == [kind |-> "result", sel |-> 0, condEvals |-> <<>>, guardEvals |-> <<>>,
               result |-> NoResult]
  IN  IF state = NoState
      THEN [none EXCEPT !.result = InvalidStateResult]
      ELSE IF r.kind = "none"
      THEN [none EXCEPT !.result = NoApplicableActionResult(event),
                        !.condEvals = r.condEvals, !.guardEvals = r.guardEvals]
      ELSE [kind |-> r.kind, sel |-> r.sel, condEvals |-> r.condEvals,
            guardEvals |-> r.guardEvals, result |-> NoResult]

\* Workflow.handleEvent up to its first await (or its return, when it has none):
\* kind "result" = returned `result` without awaiting, "invoke" = called the
\* action of trigger sel and awaits it, "threw" = a condition or guard raised
\* outside the try block, so the promise is rejected.
WorkflowHandleEventSync(state, conds, event) ==
  LET trigs == conds[event.key]
      r == Resolve(trigs, state, event)
      none == [kind |-> "result", sel |-> 0, condEvals |-> <<>>, guardEvals |-> <<>>,
               result |-> NoResult]
  IN  IF state = NoState
      THEN [none EXCEPT !.result = InvalidStateResult]
      ELSE IF Len(trigs) = 0
      THEN [none EXCEPT !.result = NoTriggersResult(event)]
      ELSE IF r.kind = "none"
      THEN [none EXCEPT !.result = NoApplicableActionResult(event),
                        !.condEvals = r.condEvals, !.guardEvals = r.guardEvals]
      ELSE [kind |-> r.kind, sel |-> r.sel, condEvals |-> r.condEvals,
            guardEvals |-> r.guardEvals, result |-> NoResult]

\* Mutant of WorkflowHandleEventResume: after a failed invocation the loop goes
\* on to the next passing trigger and invokes its action.
ResumeBacktrack(call, outcome, state) ==
  LET later == { j \in Passing(call.trigs, call.state0, call.event) : j > call.sel }
      next == CHOOSE j \in later : \A k \in later : j <= k
      failed == outcome.threw \/ ~outcome.value.success
  IN  IF failed /\ later # {}
      THEN [result |-> ActionLogData(ActionKey(call.trigs[next].action), TRUE,
                                     ActionCost(call.trigs[next].action), NoMsg, state),
            state |-> state,
            invoked |-> Append(call.invoked, call.trigs[next].action),
            condEvals |-> call.condEvals \o [k \in 1..(next - call.sel) |-> call.sel + k]]
      ELSE IF outcome.threw
      THEN [result |-> CaughtResult(outcome.errMessage), state |-> state,
            invoked |-> call.invoked, condEvals |-> call.condEvals]
      ELSE [result |-> outcome.value,
            state |-> IF outcome.value.success THEN outcome.value.new_state ELSE state,
            invoked |-> call.invoked, condEvals |-> call.condEvals]

\* Mutant of WorkflowHandleEventResume: a successful result without new_state
\* leaves the state as it is.
ResumeKeepOnMissing(call, outcome, state) ==
  IF outcome.threw
  THEN [result |-> CaughtResult(outcome.errMessage), state |-> state,
        invoked |-> call.invoked, condEvals |-> call.condEvals]
  ELSE [result |-> outcome.value,
        state |-> IF outcome.value.success /\ outcome.value.new_state # NoState
                    THEN outcome.value.new_state ELSE state,
        invoked |-> call.invoked, condEvals |-> call.condEvals]

\* Mutant of WorkflowHandleEventResume: the catch block also clears the state.
ResumeClearState(call, outcome, state) ==
  IF outcome.threw
  THEN [result |-> CaughtResult(outcome.errMessage), state |-> NoState,
        invoked |-> call.invoked, condEvals |-> call.condEvals]
  ELSE [result |-> outcome.value,
        state |-> IF outcome.value.success THEN outcome.value.new_state ELSE state,
        invoked |-> call.invoked, condEvals |-> call.condEvals]

\* Workflow.handleEvent after the awaited action.invoke settled with `outcome`
\* (the try block after the await, and the catch block): the result returned,
\* the workflow's state, and the triggers evaluated and actions invoked by the call.
WorkflowHandleEventResume(call, outcome, state) ==
  IF outcome.threw
  THEN [result |-> CaughtResult(outcome.errMessage), state |-> state,
        invoked |-> call.invoked, condEvals |-> call.condEvals]
  ELSE [result |-> outcome.value,
        state |-> IF outcome.value.success THEN outcome.value.new_state ELSE state,
        invoked |-> call.invoked, condEvals |-> call.condEvals]

(* ------------------------------ Orchestrator ---------------------------- *)

\* IInvocationLog (src/src/types/logs.ts); the timestamp is left out
InvocationLog(success, msg, taskId, event, result) ==
  [success |-> success, message |-> msg, task_id |-> taskId, event |-> event,
   action_log_data |-> result]

NoLog == InvocationLog(FALSE, NoMsg, 0, [key |-> NoKey], NoResult)

\* an id no task carries; uuidv4 never returns it
UnknownTaskId == 0

\* Mutant of getWorkflow: an unknown key falls back to the first workflow.
getWorkflowOrFirst(workflowKey) ==
  LET found == {i \in 1..Len(workflows) : WorkflowKey(workflows[i]) = workflowKey}
  IN  IF found = {} THEN (IF workflows = <<>> THEN NoKey ELSE workflows[1])
      ELSE workflows[CHOOSE i \in found : \A j \in found : i <= j]

\* Mutant of getWorkflow: the last workflow registered with the key wins.
getWorkflowLast(workflowKey) ==
  LET found == {i \in 1..Len(workflows) : WorkflowKey(workflows[i]) = workflowKey}
  IN  IF found = {} THEN NoKey
      ELSE workflows[CHOOSE i \in found : \A j \in found : i >= j]

\* Orchestrator.getWorkflow: the first workflow with the key, NoKey if none
getWorkflow(workflowKey) ==
  LET found == {i \in 1..Len(workflows) : WorkflowKey(workflows[i]) = workflowKey}
  IN  IF found = {} THEN NoKey
      ELSE workflows[CHOOSE i \in found : \A j \in found : i <= j]

\* Orchestrator.getTask: the index of the first task with the id, 0 if none
getTask(taskId) ==
  LET found == {i \in 1..Len(tasks) : tasks[i].id = taskId}
  IN  IF found = {} THEN 0 ELSE CHOOSE i \in found : \A j \in found : i <= j

\* Mutant of TaskNotFoundLog: the log does not carry the id that was asked for.
TaskNotFoundLogNoId(taskId, event) ==
  InvocationLog(FALSE, <<"Task not found", taskId>>, -1, event, NoResult)

\* the log Orchestrator.handleEvent returns for an id no task carries
TaskNotFoundLog(taskId, event) ==
  InvocationLog(FALSE, <<"Task not found", taskId>>, taskId, event, NoResult)

\* the log Orchestrator.handleEvent returns when the task's workflow is missing
WorkflowNotFoundLog(task, event) ==
  InvocationLog(FALSE, <<"Workflow not found for task", task.workflowKey>>, task.id,
                event, NoResult)

\* callers register each workflow object once
registerWorkflow(w) ==
  /\ InSetup
  /\ \A i \in 1..Len(workflows) : workflows[i] # w
  /\ workflows' = Append(workflows, w)
  /\ lastCall' = ApiCall("registerWorkflow", w, NoKey, NoKey, NoKey, "none")
  /\ UNCHANGED <<dispVars, wfVars, tasks, logs, callVars, configOps>>

\* Mutant of initTask: the initialData argument is not stored, the task gets the
\* data the workflow already held.
initTaskIgnoreData(workflowKey, initialData) ==
  /\ Len(tasks) < MaxTasks
  /\ LET w == getWorkflow(workflowKey)
         state == [key |-> initialStateKey(w), data |-> wfInitialStateData[w]]
     IN  IF w = NoKey
         THEN /\ lastCall' = ApiCall("initTask", NoKey, NoKey, NoKey, NoKey, "WorkflowNotFound")
              /\ UNCHANGED <<wfVars, tasks>>
         ELSE /\ wfState' = [wfState EXCEPT ![w] = state]
              /\ tasks' = Append(tasks, [id |-> Len(tasks) + 1,
                                         workflowKey |-> WorkflowKey(w), state |-> state])
              /\ lastCall' = ApiCall("initTask", w, NoKey, NoKey, NoKey, "none")
              /\ UNCHANGED <<wfActions, wfConditions, wfInitialStateData>>
  /\ UNCHANGED <<dispVars, workflows, logs, callVars, configOps>>

\* Mutant of initTask: every task gets the same id.
initTaskFixedId(workflowKey, initialData) ==
  /\ Len(tasks) < MaxTasks
  /\ LET w == getWorkflow(workflowKey)
         data == IF initialData # "undefined" THEN initialData ELSE wfInitialStateData[w]
         state == [key |-> initialStateKey(w), data |-> data]
     IN  IF w = NoKey
         THEN /\ lastCall' = ApiCall("initTask", NoKey, NoKey, NoKey, NoKey, "WorkflowNotFound")
              /\ UNCHANGED <<wfVars, tasks>>
         ELSE /\ wfInitialStateData' = [wfInitialStateData EXCEPT ![w] = data]
              /\ wfState' = [wfState EXCEPT ![w] = state]
              /\ tasks' = Append(tasks, [id |-> 1,
                                         workflowKey |-> WorkflowKey(w), state |-> state])
              /\ lastCall' = ApiCall("initTask", w, NoKey, NoKey, NoKey, "none")
              /\ UNCHANGED <<wfActions, wfConditions>>
  /\ UNCHANGED <<dispVars, workflows, logs, callVars, configOps>>

\* Orchestrator.initTask; initialData "undefined" is the omitted argument
initTask(workflowKey, initialData) ==
  /\ Len(tasks) < MaxTasks
  /\ LET w == getWorkflow(workflowKey)
         data == IF initialData # "undefined" THEN initialData ELSE wfInitialStateData[w]
         state == [key |-> initialStateKey(w), data |-> data]
     IN  IF w = NoKey
         THEN /\ lastCall' = ApiCall("initTask", NoKey, NoKey, NoKey, NoKey, "WorkflowNotFound")
              /\ UNCHANGED <<wfVars, tasks>>
         ELSE /\ wfInitialStateData' = [wfInitialStateData EXCEPT ![w] = data]
              /\ wfState' = [wfState EXCEPT ![w] = state]
              /\ tasks' = Append(tasks, [id |-> Len(tasks) + 1,
                                         workflowKey |-> WorkflowKey(w), state |-> state])
              /\ lastCall' = ApiCall("initTask", w, NoKey, NoKey, NoKey, "none")
              /\ UNCHANGED <<wfActions, wfConditions>>
  /\ UNCHANGED <<dispVars, workflows, logs, callVars, configOps>>

\* A handleEvent call and its position.  pc: "await_invoke" = inside
\* Workflow.handleEvent at `await action.invoke`, "await_workflow" = inside
\* Orchestrator.handleEvent at `await workflow.handleEvent`, "done" = settled,
\* "none" = no call.  state0 and trigs record the task's state and the triggers
\* the call started with; ret is the log the call returned, threw says the call
\* rejected, logged that it appended ret to the logs; seq numbers the calls in
\* the order they were made (a call is built when it is made, so it is the
\* count of the calls made before it, plus one).
Call(taskId, event, pc, task, w, state0, trigs, sync, invoked, pending, result, ret) ==
  [taskId |-> taskId, event |-> event, pc |-> pc, task |-> task, wf |-> w,
   state0 |-> state0, trigs |-> trigs, sel |-> sync.sel,
   condEvals |-> sync.condEvals, guardEvals |-> sync.guardEvals,
   invoked |-> invoked, pending |-> pending, result |-> result,
   rejected |-> sync.kind = "threw", ret |-> ret, threw |-> FALSE, logged |-> FALSE,
   stateBefore |-> NoState, stateAfter |-> NoState,
   seq |-> IF pc = "none" THEN 0 ELSE started + 1]

NoSync == [kind |-> "result", sel |-> 0, condEvals |-> <<>>, guardEvals |-> <<>>,
           result |-> NoResult]

NoCall == Call(UnknownTaskId, [key |-> NoKey], "none", 0, NoKey, NoState, <<>>, NoSync,
               <<>>, NoOutcome, NoResult, NoLog)

\* Mutant of handleEventSync: the call resolves in a context of its own and
\* does not write the task's state into the shared Workflow object.
handleEventOwnContext(taskId, event) ==
  /\ started' = started + 1
  /\ lastCall' = ApiCall("handleEvent", NoKey, NoKey, NoKey, NoKey, "none")
  /\ LET t == getTask(taskId)
         w == getWorkflow(tasks[t].workflowKey)
         state == tasks[t].state
         trigs == wfConditions[w][event.key]
         sync == WorkflowHandleEventSync(state, wfConditions[w], event)
     IN  IF t = 0
         THEN /\ settled' =
                   Call(taskId, event, "done", 0, NoKey, NoState, <<>>, NoSync, <<>>,
                        NoOutcome, NoResult, TaskNotFoundLog(taskId, event))
              /\ UNCHANGED <<wfState, calls>>
         ELSE IF w = NoKey
         THEN /\ settled' =
                   Call(taskId, event, "done", t, NoKey, state, <<>>, NoSync, <<>>,
                        NoOutcome, NoResult, WorkflowNotFoundLog(tasks[t], event))
              /\ UNCHANGED <<wfState, calls>>
         ELSE /\ UNCHANGED <<wfState, settled>>
              /\ IF sync.kind = "invoke"
                 THEN \E outcome \in InvokeOutcomes(trigs[sync.sel].action, state) :
                        calls' = Append(calls,
                          Call(taskId, event, "await_invoke", t, w, state, trigs, sync,
                               <<trigs[sync.sel].action>>, outcome, NoResult, NoLog))
                 ELSE calls' = Append(calls,
                          Call(taskId, event, "await_workflow", t, w, state, trigs, sync,
                               <<>>, NoOutcome, sync.result, NoLog))
  /\ UNCHANGED <<dispVars, wfActions, wfConditions, wfInitialStateData, workflows, tasks, logs,
                 configOps>>

\* Mutant of handleEventSync: the workflow is hydrated only when it holds no
\* state, so a call resolves on whatever state the shared object holds.
handleEventSharedContext(taskId, event) ==
  /\ started' = started + 1
  /\ lastCall' = ApiCall("handleEvent", NoKey, NoKey, NoKey, NoKey, "none")
  /\ LET t == getTask(taskId)
         w == getWorkflow(tasks[t].workflowKey)
         state == IF wfState[w] # NoState THEN wfState[w] ELSE tasks[t].state
         trigs == wfConditions[w][event.key]
         sync == WorkflowHandleEventSync(state, wfConditions[w], event)
     IN  IF t = 0
         THEN /\ settled' =
                   Call(taskId, event, "done", 0, NoKey, NoState, <<>>, NoSync, <<>>,
                        NoOutcome, NoResult, TaskNotFoundLog(taskId, event))
              /\ UNCHANGED <<wfState, calls>>
         ELSE IF w = NoKey
         THEN /\ settled' =
                   Call(taskId, event, "done", t, NoKey, tasks[t].state, <<>>, NoSync, <<>>,
                        NoOutcome, NoResult, WorkflowNotFoundLog(tasks[t], event))
              /\ UNCHANGED <<wfState, calls>>
         ELSE /\ wfState' = [wfState EXCEPT ![w] = state]
              /\ UNCHANGED settled
              /\ IF sync.kind = "invoke"
                 THEN \E outcome \in InvokeOutcomes(trigs[sync.sel].action, state) :
                        calls' = Append(calls,
                          Call(taskId, event, "await_invoke", t, w, state, trigs, sync,
                               <<trigs[sync.sel].action>>, outcome, NoResult, NoLog))
                 ELSE calls' = Append(calls,
                          Call(taskId, event, "await_workflow", t, w, state, trigs, sync,
                               <<>>, NoOutcome, sync.result, NoLog))
  /\ UNCHANGED <<dispVars, wfActions, wfConditions, wfInitialStateData, workflows, tasks, logs,
                 configOps>>

\* Orchestrator.handleEvent up to its first await: the lookups, setState, and
\* the synchronous part of Workflow.handleEvent
handleEventSync(taskId, event) ==
  /\ started' = started + 1
  /\ lastCall' = ApiCall("handleEvent", NoKey, NoKey, NoKey, NoKey, "none")
  /\ LET t == getTask(taskId)
         w == getWorkflow(tasks[t].workflowKey)
         state == tasks[t].state
         trigs == wfConditions[w][event.key]
         sync == WorkflowHandleEventSync(state, wfConditions[w], event)
     IN  IF t = 0
         THEN /\ settled' =
                   Call(taskId, event, "done", 0, NoKey, NoState, <<>>, NoSync, <<>>,
                        NoOutcome, NoResult, TaskNotFoundLog(taskId, event))
              /\ UNCHANGED <<wfState, calls>>
         ELSE IF w = NoKey
         THEN /\ settled' =
                   Call(taskId, event, "done", t, NoKey, state, <<>>, NoSync, <<>>,
                        NoOutcome, NoResult, WorkflowNotFoundLog(tasks[t], event))
              /\ UNCHANGED <<wfState, calls>>
         ELSE /\ wfState' = [wfState EXCEPT ![w] = state]
              /\ UNCHANGED settled
              /\ IF sync.kind = "invoke"
                 THEN \E outcome \in InvokeOutcomes(trigs[sync.sel].action, state) :
                        calls' = Append(calls,
                          Call(taskId, event, "await_invoke", t, w, state, trigs, sync,
                               <<trigs[sync.sel].action>>, outcome, NoResult, NoLog))
                 ELSE calls' = Append(calls,
                          Call(taskId, event, "await_workflow", t, w, state, trigs, sync,
                               <<>>, NoOutcome, sync.result, NoLog))
  /\ UNCHANGED <<dispVars, wfActions, wfConditions, wfInitialStateData, workflows, tasks, logs,
                 configOps>>

\* a handleEvent call made by a caller
handleEvent(taskId, event) == started < MaxCalls /\ handleEventSync(taskId, event)

\* Workflow.handleEvent resumed after `await action.invoke(...)`
workflowResume(c) ==
  /\ calls[c].pc = "await_invoke"
  /\ LET call == calls[c]
         r == WorkflowHandleEventResume(call, call.pending, wfState[call.wf])
     IN  /\ wfState' = [wfState EXCEPT ![call.wf] = r.state]
         /\ calls' = [calls EXCEPT ![c] =
                        [call EXCEPT !.pc = "await_workflow", !.result = r.result,
                                     !.invoked = r.invoked, !.condEvals = r.condEvals]]
  /\ UNCHANGED <<dispVars, wfActions, wfConditions, wfInitialStateData, workflows, tasks, logs,
                 settled, started, lastCall, configOps>>

\* Mutant of CommitState: new_state is committed whatever the success flag says.
CommitAlways(taskState, result) ==
  IF result.new_state # NoState THEN result.new_state ELSE taskState

\* Mutant of CommitState: a successful result's new_state is committed even
\* when the result has none.
CommitResultState(taskState, result) ==
  IF result.success THEN result.new_state ELSE taskState

\* Mutant of CommitState: the task keeps its state whatever the result.
CommitNothing(taskState, result) == taskState

\* the state Orchestrator.handleEvent leaves on the task for a result
CommitState(taskState, result) ==
  IF result.success
  THEN IF result.new_state # NoState THEN result.new_state ELSE taskState
  ELSE taskState

\* !!value for an optional string: undefined and the empty string are falsy
Truthy(str) == str # NoKey /\ str # ""

\* Mutant of ResultLog: the entry's flag is the result's success flag.
ResultLogBySuccess(task, event, result) ==
  InvocationLog(result.success, NoMsg, task.id, event, result)

\* Mutant of ResultLog: the entry's flag says whether the result has a new_state.
ResultLogByNewState(task, event, result) ==
  InvocationLog(result.new_state # NoState, NoMsg, task.id, event, result)

\* the log entry Orchestrator.handleEvent builds for a result
ResultLog(task, event, result) ==
  InvocationLog(Truthy(result.action_key), NoMsg, task.id, event, result)

\* the sequence without its element c
RemoveAt(seq, c) == SubSeq(seq, 1, c - 1) \o SubSeq(seq, c + 1, Len(seq))

\* Mutant of orchestratorResume: a result that carries an emitEvent descriptor
\* makes the orchestrator deliver the derived event to the task, which is logged
\* as a second entry.
orchestratorResumeCascade(c) ==
  /\ calls[c].pc = "await_workflow"
  /\ LET call == calls[c]
         before == tasks[call.task].state
         after == CommitState(before, call.result)
         log == ResultLog(tasks[call.task], call.event, call.result)
         derived == ResultLog(tasks[call.task], [key |-> call.result.emitEvent], NoResult)
     IN  IF call.rejected
         THEN /\ settled' = [call EXCEPT !.pc = "done", !.threw = TRUE,
                                         !.stateBefore = before, !.stateAfter = before]
              /\ UNCHANGED <<tasks, logs>>
         ELSE /\ tasks' = [tasks EXCEPT ![call.task].state = after]
              /\ logs' = IF call.result.emitEvent # NoKey
                         THEN Append(Append(logs, log), derived) ELSE Append(logs, log)
              /\ settled' = [call EXCEPT !.pc = "done", !.ret = log, !.logged = TRUE,
                                         !.stateBefore = before, !.stateAfter = after]
  /\ calls' = RemoveAt(calls, c)
  /\ UNCHANGED <<dispVars, wfVars, workflows, started, lastCall, configOps>>

\* Mutant of orchestratorResume: the entry is put in front of the entries
\* logged so far.
orchestratorResumePrepend(c) ==
  /\ calls[c].pc = "await_workflow"
  /\ LET call == calls[c]
         before == tasks[call.task].state
         after == CommitState(before, call.result)
         log == ResultLog(tasks[call.task], call.event, call.result)
     IN  IF call.rejected
         THEN /\ settled' = [call EXCEPT !.pc = "done", !.threw = TRUE,
                                         !.stateBefore = before, !.stateAfter = before]
              /\ UNCHANGED <<tasks, logs>>
         ELSE /\ tasks' = [tasks EXCEPT ![call.task].state = after]
              /\ logs' = <<log>> \o logs
              /\ settled' = [call EXCEPT !.pc = "done", !.ret = log, !.logged = TRUE,
                                         !.stateBefore = before, !.stateAfter = after]
  /\ calls' = RemoveAt(calls, c)
  /\ UNCHANGED <<dispVars, wfVars, workflows, started, lastCall, configOps>>

\* Orchestrator.handleEvent resumed after `await workflow.handleEvent(...)`:
\* a rejection propagates to the caller; otherwise commit, log and return.
\* stateBefore / stateAfter record the task's state around the commit.
orchestratorResume(c) ==
  /\ calls[c].pc = "await_workflow"
  /\ LET call == calls[c]
         before == tasks[call.task].state
         after == CommitState(before, call.result)
         log == ResultLog(tasks[call.task], call.event, call.result)
     IN  IF call.rejected
         THEN /\ settled' = [call EXCEPT !.pc = "done", !.threw = TRUE,
                                         !.stateBefore = before, !.stateAfter = before]
              /\ UNCHANGED <<tasks, logs>>
         ELSE /\ tasks' = [tasks EXCEPT ![call.task].state = after]
              /\ logs' = Append(logs, log)
              /\ settled' = [call EXCEPT !.pc = "done", !.ret = log, !.logged = TRUE,
                                         !.stateBefore = before, !.stateAfter = after]
  /\ calls' = RemoveAt(calls, c)
  /\ UNCHANGED <<dispVars, wfVars, workflows, started, lastCall, configOps>>

(* ------------------------------ specification --------------------------- *)

Init ==
  /\ wfActions = [w \in WorkflowObjs |-> ConstructorActions(w)]
  /\ wfConditions = [w \in WorkflowObjs |-> [e \in EventKeys |-> <<>>]]
  /\ wfState = [w \in WorkflowObjs |-> NoState]
  /\ wfInitialStateData = [w \in WorkflowObjs |-> "{}"]
  /\ workflows = <<>>
  /\ tasks = <<>>
  /\ logs = <<>>
  /\ calls = <<>>
  /\ settled = NoCall
  /\ started = 0
  /\ lastCall = ApiCall("none", NoKey, NoKey, NoKey, NoKey, "none")
  /\ configOps = 0
  /\ Constructed(FALSE)

Next ==
  \/ \E r \in RegisterInputs : registerAction(r[1], r[2])
  \/ \E t \in TriggerInputs : addTrigger(t[1], t[2], t[3], t[4])
  \/ \E w \in WorkflowObjs : registerWorkflow(w)
  \/ \E k \in WorkflowKeys, d \in InitialDataInputs : initTask(k, d)
  \/ \E id \in {UnknownTaskId} \cup {tasks[i].id : i \in 1..Len(tasks)}, e \in Events :
       handleEvent(id, e)
  \/ \E c \in 1..Len(calls) : workflowResume(c)
  \/ \E c \in 1..Len(calls) : orchestratorResume(c)

Spec == Init /\ [][Next]_vars

\* Spec with the scheduling of the event loop: a continuation whose awaited
\* promise has settled is run.  The outcome of every invocation is fixed when
\* the action is invoked (it returns or throws), so each call in flight has
\* a continuation that is ready.
FairSpec ==
  /\ Spec
  /\ WF_vars(\E c \in 1..Len(calls) : workflowResume(c))
  /\ WF_vars(\E c \in 1..Len(calls) : orchestratorResume(c))


(* ---------------------- the procurement example ------------------------- *)

\* handleEvent calls made in one run of the procurement example
MaxProcCalls == 3

\* IEvent.key values the procurement demo delivers (src/unnamed/part_000 13-22)
ProcEventKeys == {"rfq_uploaded_event", "rfq_processed_event"}
ProcEvents == [key : ProcEventKeys]

\* the call went through `await action.invoke`
Invoking(call) == call.sel > 0

\* The bodies of the procurement actions are synchronous, so the continuations
\* of a call are microtasks and run first-in first-out: a call that awaits its
\* action resumes, and later settles, after every such call started before it;
\* a call that returns without invoking an action settles after every such call
\* started before it.
ProcInOrder(c) == \A b \in 1..(c - 1) : Invoking(calls[c]) # Invoking(calls[b])

\* module load of the example: the workflow is built with its two addTrigger
\* calls, then the ProcurementOrchestrator is constructed with it
ProcSetup ==
  \/ /\ configOps = 0
     /\ addTrigger(rfqProcurementWorkflow, "rfq_uploaded_event", "processRfqAction",
                   "isRfqUploaded")
  \/ /\ configOps = 1
     /\ addTrigger(rfqProcurementWorkflow, "rfq_processed_event",
                   "notifyRoleSelectionAction", "isProcessing")
  \/ /\ configOps = 2 /\ workflows = <<>>
     /\ registerWorkflow(rfqProcurementWorkflow)

ProcInit ==
  /\ wfActions = [w \in {rfqProcurementWorkflow} |-> <<>>]
  /\ wfConditions = [w \in {rfqProcurementWorkflow} |-> [e \in ProcEventKeys |-> <<>>]]
  /\ wfState = [w \in {rfqProcurementWorkflow} |-> NoState]
  /\ wfInitialStateData = [w \in {rfqProcurementWorkflow} |-> "{}"]
  /\ workflows = <<>>
  /\ tasks = <<>>
  /\ logs = <<>>
  /\ calls = <<>>
  /\ settled = NoCall
  /\ started = 0
  /\ lastCall = ApiCall("none", NoKey, NoKey, NoKey, NoKey, "none")
  /\ configOps = 0
  /\ Constructed(FALSE)

ProcNext ==
  \/ ProcSetup
  \/ workflows # <<>> /\ \E d \in InitialDataInputs : initTask("rfq_procurement", d)
  \/ /\ started < MaxProcCalls
     /\ \E i \in 1..Len(tasks), e \in ProcEvents : handleEventSync(tasks[i].id, e)
  \/ \E c \in 1..Len(calls) : ProcInOrder(c) /\ workflowResume(c)
  \/ \E c \in 1..Len(calls) : ProcInOrder(c) /\ orchestratorResume(c)

ProcSpec == ProcInit /\ [][ProcNext]_vars


(* ------------- Workflow.handleEvent as a function of its inputs --------- *)

\* runs of Workflow.handleEvent made in one behaviour
MaxDetRuns == 3

\* the states runs are started from
DetStates == {[key |-> "s0", data |-> "{}"], [key |-> "s1", data |-> "{}"]}

\* the triggers the workflows are built with: (action, condition)
DetTriggers ==
  { [action |-> "a1", condition |-> "always"], [action |-> "a2", condition |-> "isS1"],
    [action |-> "a3", condition |-> "always"], [action |-> "aThrow", condition |-> "isS1"] }

\* what addTrigger calls can leave under one event key: up to two triggers with
\* different action keys, in the order of the calls
DetTrigSeqs ==
  {<<>>} \cup {<<t>> : t \in DetTriggers}
         \cup {p \in DetTriggers \X DetTriggers :
                 ActionKey(p[1].action) # ActionKey(p[2].action)}

\* the sequence in the opposite order
Reverse(seq) == [i \in 1..Len(seq) |-> seq[Len(seq) + 1 - i]]

\* Two Workflow objects built with the same triggers for e1 (w2 possibly in the
\* opposite registration order) and none for e2; no orchestrator state.
DetInit ==
  /\ \E ts \in DetTrigSeqs, rev \in BOOLEAN :
       /\ wfConditions =
            [w \in WorkflowObjs |->
               [e \in EventKeys |->
                  IF e # "e1" THEN <<>>
                  ELSE IF w = "w2" /\ rev THEN Reverse(ts) ELSE ts]]
       /\ wfActions =
            [w \in WorkflowObjs |->
               LET trigs == IF w = "w2" /\ rev THEN Reverse(ts) ELSE ts
               IN  [i \in 1..Len(trigs) |-> trigs[i].action]]
  /\ wfState = [w \in WorkflowObjs |-> NoState]
  /\ wfInitialStateData = [w \in WorkflowObjs |-> "{}"]
  /\ workflows = <<>>
  /\ tasks = <<>>
  /\ logs = <<>>
  /\ calls = <<>>
  /\ settled = NoCall
  /\ started = 0
  /\ lastCall = ApiCall("none", NoKey, NoKey, NoKey, NoKey, "none")
  /\ configOps = 0
  /\ Constructed(FALSE)

\* One run of Workflow.handleEvent on the object w, started the way the
\* orchestrator starts it: setState(state), then handleEvent(event) up to its
\* first await.  A run is awaited before the next is made.  The runs stay in `calls`;
\* a run has returned when its pc is "await_workflow".
detRun(w, state, event) ==
  /\ started < MaxDetRuns
  /\ \A c \in 1..Len(calls) : calls[c].pc # "await_invoke"
  /\ started' = started + 1
  /\ wfState' = [wfState EXCEPT ![w] = state]
  /\ LET trigs == wfConditions[w][event.key]
         sync == WorkflowHandleEventSync(state, wfConditions[w], event)
     IN  IF sync.kind = "invoke"
         THEN \E outcome \in InvokeOutcomes(trigs[sync.sel].action, state) :
                calls' = Append(calls,
                  Call(UnknownTaskId, event, "await_invoke", 0, w, state, trigs, sync,
                       <<trigs[sync.sel].action>>, outcome, NoResult, NoLog))
         ELSE calls' = Append(calls,
                  Call(UnknownTaskId, event, "await_workflow", 0, w, state, trigs, sync,
                       <<>>, NoOutcome, sync.result, NoLog))
  /\ UNCHANGED <<dispVars, wfActions, wfConditions, wfInitialStateData, workflows, tasks, logs,
                 settled, lastCall, configOps>>

DetNext ==
  \/ \E w \in WorkflowObjs, state \in DetStates, e \in Events : detRun(w, state, e)
  \/ \E c \in 1..Len(calls) : workflowResume(c)

DetSpec == DetInit /\ [][DetNext]_vars


(* ------------------- a Workflow object used directly -------------------- *)

\* handleEvent calls made on the Workflow objects in one run
MaxWfRuns == 2

\* Workflow.initState
initState(w) ==
  /\ wfState' = [wfState EXCEPT
                   ![w] = [key |-> initialStateKey(w), data |-> wfInitialStateData[w]]]
  /\ UNCHANGED <<dispVars, wfActions, wfConditions, wfInitialStateData, workflows, tasks,
                 logs, callVars, lastCall, configOps>>

\* Workflow.setState
setState(w, state) ==
  /\ wfState' = [wfState EXCEPT ![w] = state]
  /\ UNCHANGED <<dispVars, wfActions, wfConditions, wfInitialStateData, workflows, tasks,
                 logs, callVars, lastCall, configOps>>

\* Workflow.handleEvent called on the object w as it is, up to its first
\* await.  A call is awaited before the next is made, while initState and
\* setState may be called at any moment.  The calls stay in `calls`; a call
\* has returned when its pc is "await_workflow".
workflowHandleEvent(w, event) ==
  /\ started < MaxWfRuns
  /\ \A c \in 1..Len(calls) : calls[c].pc # "await_invoke"
  /\ started' = started + 1
  /\ LET state == wfState[w]
         trigs == wfConditions[w][event.key]
         sync == WorkflowHandleEventSync(state, wfConditions[w], event)
     IN  IF sync.kind = "invoke"
         THEN \E outcome \in InvokeOutcomes(trigs[sync.sel].action, state) :
                calls' = Append(calls,
                  Call(UnknownTaskId, event, "await_invoke", 0, w, state, trigs, sync,
                       <<trigs[sync.sel].action>>, outcome, NoResult, NoLog))
         ELSE calls' = Append(calls,
                  Call(UnknownTaskId, event, "await_workflow", 0, w, state, trigs, sync,
                       <<>>, NoOutcome, sync.result, NoLog))
  /\ UNCHANGED <<dispVars, wfVars, workflows, tasks, logs, settled, lastCall, configOps>>

WfNext ==
  \/ \E w \in WorkflowObjs : initState(w)
  \/ \E w \in WorkflowObjs, state \in DetStates : setState(w, state)
  \/ \E w \in WorkflowObjs, e \in Events : workflowHandleEvent(w, e)
  \/ \E c \in 1..Len(calls) : workflowResume(c)

WfSpec == DetInit /\ [][WfNext]_vars


(* ---------------- the status-based Orchestrator: its calls -------------- *)

\* dispatch calls made in one run
MaxDispatches == 3

\* addAction, updateMemory, addLog calls and memory assignments made in one run
MaxDispOps == 2

\* the memory objects and partial updates the caller passes
MemoryInputs == {[count |-> 0], [count |-> 7]}

\* the log entries the caller passes to addLog
LogInputs == {"note"}

\* Orchestrator.isFinalStatus
isFinalStatus == _status \in finalStatuses

\* { ...memory, ...partial }
Merge(memory, partial) ==
  [k \in DOMAIN memory \cup DOMAIN partial |->
     IF k \in DOMAIN partial THEN partial[k] ELSE memory[k]]

\* Orchestrator.persist: the callback, if there is one, receives
\* (status, memory, logs)
persist(status, memory, actionLogs) ==
  IF handlePersistentStorage.configured
    THEN [handlePersistentStorage EXCEPT
            !.last = [status |-> status, memory |-> memory, logs |-> actionLogs]]
    ELSE handlePersistentStorage

\* Orchestrator.addAction
addAction(a) ==
  /\ dispOps < MaxDispOps
  /\ dispOps' = dispOps + 1
  /\ actions' = [actions EXCEPT ![DispActionKey(a)] = a]
  /\ UNCHANGED <<coreVars, _status, _memory, _logs, handlePersistentStorage, dispatches,
                 lastDispatch, dispatched>>

\* Orchestrator `set memory`
setMemory(newMemory) ==
  /\ dispOps < MaxDispOps
  /\ dispOps' = dispOps + 1
  /\ _memory' = newMemory
  /\ handlePersistentStorage' = persist(_status, newMemory, _logs)
  /\ UNCHANGED <<coreVars, _status, _logs, actions, dispatches, lastDispatch, dispatched>>

\* Orchestrator.updateMemory
updateMemory(partial) ==
  /\ dispOps < MaxDispOps
  /\ dispOps' = dispOps + 1
  /\ _memory' = Merge(_memory, partial)
  /\ handlePersistentStorage' = persist(_status, Merge(_memory, partial), _logs)
  /\ UNCHANGED <<coreVars, _status, _logs, actions, dispatches, lastDispatch, dispatched>>

\* Orchestrator.addLog
addLog(log) ==
  /\ dispOps < MaxDispOps
  /\ dispOps' = dispOps + 1
  /\ _logs' = Append(_logs, log)
  /\ handlePersistentStorage' = persist(_status, _memory, Append(_logs, log))
  /\ UNCHANGED <<coreVars, _status, _memory, actions, dispatches, lastDispatch, dispatched>>

\* dispatch that never consults the transition table
dispatchStartNoTable(actionKey) ==
  LET action == actions[actionKey]
      from == _status
      result == perform(action, _status, _memory)
  IN  IF isFinalStatus
        THEN Dispatch(actionKey, NoAction, NoStatus, NoStatus, NoResultYet, "threw",
                      "Cannot transition from final status")
      ELSE IF action = NoAction
        THEN Dispatch(actionKey, NoAction, NoStatus, NoStatus, NoResultYet, "threw",
                      "Unknown action")
      ELSE IF result.threw
        THEN Dispatch(actionKey, action, from, from, result, "threw", "execute threw")
      ELSE Dispatch(actionKey, action, from, from, result, "await_perform", NoKey)

\* Orchestrator.dispatch up to `await action.perform(...)`: the two throws,
\* the locals, and the call of perform with the current status and memory
dispatchStart(actionKey) ==
  LET action == actions[actionKey]
      from == _status
      defaultTo == IF transitions(from, actionKey) # NoStatus
                     THEN transitions(from, actionKey) ELSE from
      result == perform(action, _status, _memory)
  IN  IF isFinalStatus
        THEN Dispatch(actionKey, NoAction, NoStatus, NoStatus, NoResultYet, "threw",
                      "Cannot transition from final status")
      ELSE IF action = NoAction
        THEN Dispatch(actionKey, NoAction, NoStatus, NoStatus, NoResultYet, "threw",
                      "Unknown action")
      ELSE IF result.threw
        THEN Dispatch(actionKey, action, from, defaultTo, result, "threw", "execute threw")
      ELSE Dispatch(actionKey, action, from, defaultTo, result, "await_perform", NoKey)

\* Orchestrator.dispatch(actionKey), the synchronous part
dispatch(actionKey) ==
  LET d == dispatchStart(actionKey)
  IN  /\ dispatched < MaxDispatches
      /\ dispatched' = dispatched + 1
      /\ IF d.pc = "threw"
           THEN lastDispatch' = d /\ UNCHANGED dispatches
           ELSE dispatches' = Append(dispatches, d) /\ UNCHANGED lastDispatch
      /\ UNCHANGED <<coreVars, _status, _memory, _logs, actions, handlePersistentStorage,
                     dispOps>>

\* Mutant of nextStatus: the transition table decides, whatever the action
\* returned.
nextStatusTableOnly(d) == d.defaultTo

\* the status dispatch assigns after the action has been performed
nextStatus(d) == IF d.result.status # NoStatus THEN d.result.status ELSE d.defaultTo

\* Mutant of dispatchResume: the status and the memory are written to the
\* fields directly, so only addLog reaches the persistence callback.
dispatchResumeStalePersist(c) ==
  LET d == dispatches[c]
      log == ActionLog(d.action)
      newLogs == IF log # NoActionLog THEN Append(_logs, log) ELSE _logs
      newMemory == IF d.result.memory # NoMemory
                     THEN Merge(_memory, d.result.memory) ELSE _memory
  IN  /\ _logs' = newLogs
      /\ _status' = nextStatus(d)
      /\ _memory' = newMemory
      /\ handlePersistentStorage' =
           (IF log # NoActionLog THEN persist(_status, _memory, newLogs)
            ELSE handlePersistentStorage)
      /\ dispatches' = RemoveAt(dispatches, c)
      /\ lastDispatch' = [d EXCEPT !.pc = "done"]
      /\ UNCHANGED <<coreVars, actions, dispatched, dispOps>>

\* Orchestrator.dispatch after `await action.perform(...)`: the log, the
\* status, the memory, each followed by persist
dispatchResume(c) ==
  LET d == dispatches[c]
      log == ActionLog(d.action)
      newLogs == IF log # NoActionLog THEN Append(_logs, log) ELSE _logs
      newMemory == IF d.result.memory # NoMemory
                     THEN Merge(_memory, d.result.memory) ELSE _memory
  IN  /\ _logs' = newLogs
      /\ _status' = nextStatus(d)
      /\ _memory' = newMemory
      /\ handlePersistentStorage' = persist(nextStatus(d), newMemory, newLogs)
      /\ dispatches' = RemoveAt(dispatches, c)
      /\ lastDispatch' = [d EXCEPT !.pc = "done"]
      /\ UNCHANGED <<coreVars, actions, dispatched, dispOps>>

\* the status example after its module-level code: the orchestrator is
\* constructed and start, finish and stop are registered
DispInit ==
  /\ wfActions = [w \in WorkflowObjs |-> ConstructorActions(w)]
  /\ wfConditions = [w \in WorkflowObjs |-> [e \in EventKeys |-> <<>>]]
  /\ wfState = [w \in WorkflowObjs |-> NoState]
  /\ wfInitialStateData = [w \in WorkflowObjs |-> "{}"]
  /\ workflows = <<>>
  /\ tasks = <<>>
  /\ logs = <<>>
  /\ calls = <<>>
  /\ settled = NoCall
  /\ started = 0
  /\ lastCall = ApiCall("none", NoKey, NoKey, NoKey, NoKey, "none")
  /\ configOps = 0
  /\ _status = initialStatus
  /\ _memory = initialMemory
  /\ _logs = <<>>
  /\ actions = [k \in DispActionKeys |->
                  CASE k = "start" -> "startAction"
                    [] k = "finish" -> "finishAction"
                    [] k = "stop" -> "stopAction"
                    [] OTHER -> NoAction]
  /\ handlePersistentStorage \in
       {[configured |-> b, last |-> NotPersisted] : b \in BOOLEAN}
  /\ dispatches = <<>>
  /\ lastDispatch = NoDispatch
  /\ dispatched = 0
  /\ dispOps = 0

DispNext ==
  \/ \E a \in DispActionObjs : addAction(a)
  \/ \E m \in MemoryInputs : setMemory(m)
  \/ \E m \in MemoryInputs : updateMemory(m)
  \/ \E l \in LogInputs : addLog(l)
  \/ \E k \in DispActionKeys : dispatch(k)
  \/ \E c \in 1..Len(dispatches) : dispatchResume(c)

DispSpec == DispInit /\ [][DispNext]_vars


(* ------------------------------- claims --------------------------------- *)

\* the handleEvent calls the state records: those in flight and the last settled
Observed ==
  {calls[i] : i \in 1..Len(calls)} \cup (IF settled.pc = "done" THEN {settled} ELSE {})

\* a call that reached Workflow.handleEvent with a state and triggers for its event
Resolving(call) == call.wf # NoKey /\ call.state0 # NoState /\ Len(call.trigs) > 0

Min(S) == CHOOSE i \in S : \A j \in S : i <= j

\* the first passing trigger of the call, and no trigger before it raises
FirstPassing(call) == Min(Passing(call.trigs, call.state0, call.event))

ReachesFirstPassing(call) ==
  /\ Passing(call.trigs, call.state0, call.event) # {}
  /\ \A j \in Raising(call.trigs, call.state0, call.event) : j > FirstPassing(call)

C2_AsStated ==
  (settled.pc = "done" /\ settled.wf # NoKey)
  => /\ settled.result.success => settled.stateAfter = settled.result.new_state
     /\ ~settled.result.success => settled.stateAfter = settled.stateBefore

\* C2 as amended: at its commit a call sets the task's state to
\* result.new_state when the result has success = true and carries a new_state;
\* when success = false, when the action body threw, and when a successful
\* result carries no new_state, the task's state is left as it was.
C2_CommitAtomicity ==
  (settled.pc = "done" /\ settled.wf # NoKey)
  => /\ settled.stateBefore # NoState
     /\ IF settled.result.success /\ settled.result.new_state # NoState
        THEN settled.stateAfter = settled.result.new_state
        ELSE settled.stateAfter = settled.stateBefore
     /\ (settled.pending.threw \/ settled.rejected) => ~settled.result.success

\* one settled call committed a new state, and the task still holds it
C2_Witness ==
  /\ settled.pc = "done" /\ settled.wf # NoKey
  /\ settled.result.success /\ settled.result.new_state # NoState
  /\ settled.stateAfter # settled.stateBefore
  /\ tasks[settled.task].state = settled.result.new_state

\* C3 (No backtracking): once a call has selected the first passing trigger, a
\* failure of its action (it throws or returns success = false) is the result of
\* the call; only the selected action was invoked and no trigger registered
\* after the selected one was evaluated.
C3_NoBacktracking ==
  \A call \in Observed :
    (call.sel > 0 /\ call.pc \in {"await_workflow", "done"}
       /\ (call.pending.threw \/ ~call.pending.value.success))
    => /\ call.invoked = <<call.trigs[call.sel].action>>
       /\ call.condEvals = [k \in 1..call.sel |-> k]
       /\ \A k \in 1..Len(call.guardEvals) : call.guardEvals[k] <= call.sel
       /\ ~call.result.success
       /\ call.result = IF call.pending.threw THEN CaughtResult(call.pending.errMessage)
                        ELSE call.pending.value

\* a settled call whose action failed although a later trigger passes
C3_Witness ==
  /\ settled.pc = "done" /\ settled.sel > 0 /\ ~settled.result.success
  /\ \E j \in Passing(settled.trigs, settled.state0, settled.event) : j > settled.sel

\* C4 as stated (handleEvent never throws): every settled call returned a log.
C4_NeverThrows == settled.pc = "done" => ~settled.threw

\* C5 as stated (one log entry per call): the log sequence holds one entry per
\* settled call, and the entry a call returned is the entry it appended.
C5_OneLogPerCall ==
  /\ Len(logs) = started - Len(calls)
  /\ settled.pc = "done" => settled.logged

\* C6 (Unknown task): a call with an id no task carries returns, without
\* throwing, a log with success = false and task_id = the id; it evaluates no
\* condition or guard, invokes no action and changes no task's or workflow's state.
C6_UnknownTask ==
  [][ (started' = started + 1 /\ calls' = calls /\ settled'.task = 0)
      => /\ settled'.pc = "done" /\ ~settled'.threw
         /\ settled'.ret.success = FALSE
         /\ settled'.ret.task_id = settled'.taskId
         /\ settled'.condEvals = <<>> /\ settled'.guardEvals = <<>>
         /\ settled'.invoked = <<>>
         /\ tasks' = tasks /\ wfState' = wfState ]_vars

\* a call with an unknown id settled while tasks exist
C6_Witness ==
  /\ settled.pc = "done" /\ settled.task = 0 /\ Len(tasks) > 0
  /\ settled.ret.task_id = UnknownTaskId

\* every trigger of the call has a false condition or a failing guard
NoMatch(call) ==
  /\ Resolving(call)
  /\ Passing(call.trigs, call.state0, call.event) = {}
  /\ Raising(call.trigs, call.state0, call.event) = {}

\* C7 (No-match leaves state unchanged): when triggers are registered for the
\* event and each has a false condition or a failing guard, the call invokes no
\* action, its result is the failed NoApplicableAction result with cost 0, the
\* workflow's state is the state the call started with, and the commit leaves
\* the task's state as it was.
C7_NoMatch ==
  [][ /\ (started' = started + 1 /\ Len(calls') = Len(calls) + 1
            /\ NoMatch(calls'[Len(calls')]))
         => LET call == calls'[Len(calls')]
            IN  /\ call.invoked = <<>> /\ call.sel = 0
                /\ call.pc = "await_workflow"
                /\ call.result = NoApplicableActionResult(call.event)
                /\ call.result.cost = 0 /\ ~call.result.success
                /\ wfState'[call.wf] = call.state0
      /\ (settled' # settled /\ settled'.pc = "done" /\ NoMatch(settled'))
         => /\ tasks' = tasks
            /\ settled'.ret.action_log_data = NoApplicableActionResult(settled'.event) ]_vars

\* a no-match call settled in which a condition held and the guard refused
C7_Witness ==
  /\ settled.pc = "done" /\ NoMatch(settled)
  /\ settled.guardEvals # <<>>
  /\ tasks[settled.task].state = settled.state0

\* C8 (Failure containment): when the selected action's invoke throws, the
\* result of Workflow.handleEvent is failed with cost 0 and carries the
\* exception's message (the default text when the exception has none), the
\* workflow's state is untouched by the resumption, and the action was invoked
\* once.
C8_FailureContainment ==
  [][ \A c \in 1..Len(calls) :
        (calls[c].pc = "await_invoke" /\ calls[c].pending.threw
           /\ Len(calls') = Len(calls) /\ calls'[c].pc = "await_workflow")
        => /\ ~calls'[c].result.success
           /\ calls'[c].result.cost = 0
           /\ calls'[c].result.action_key = NoKey
           /\ calls'[c].result.message =
                IF calls[c].pending.errMessage = NoMsg
                THEN <<"Action execution failed">> ELSE calls[c].pending.errMessage
           /\ wfState' = wfState
           /\ calls'[c].invoked = <<calls[c].trigs[calls[c].sel].action>> ]_vars

\* a call whose action threw settled with the exception's message in its log
C8_Witness ==
  /\ settled.pc = "done" /\ settled.pending.threw
  /\ settled.ret.action_log_data.message = <<"boom">>
  /\ tasks[settled.task].state = settled.stateBefore

\* C9 as stated (TriggerConflict): an addTrigger call for an (eventKey,
\* action.key) pair that is already bound fails with TriggerConflict.
C9_TriggerConflict ==
  ( /\ lastCall.op = "addTrigger" /\ lastCall.error # "none"
    /\ HasTrigger(wfConditions[lastCall.wf][lastCall.eventKey],
                  ActionKey(lastCall.action)) )
  => lastCall.error = "TriggerConflict"

\* C10 as stated (addTrigger registers the action only if needed): an
\* addTrigger call with an action object that is already in the registry, for
\* an event key the action is not bound to, raises no error.
C10_AddTriggerRegistered ==
  ( /\ lastCall.op = "addTrigger"
    /\ \E i \in 1..Len(wfActions[lastCall.wf]) :
         wfActions[lastCall.wf][i] = lastCall.action
    /\ ~HasTrigger(wfConditions[lastCall.wf][lastCall.eventKey],
                   ActionKey(lastCall.action)) )
  => lastCall.error = "none"

\* each key of an action registry is held by one entry
UniqueActionKeys(registry) ==
  \A i, j \in 1..Len(registry) :
    ActionKey(registry[i]) = ActionKey(registry[j]) => i = j

\* C11 (Conflict detection for actions): a registerAction call with an action
\* whose key is already in the workflow's action registry throws
\* ActionKeyConflict and leaves the action registry and the trigger registry as
\* they were; in every state each key of a registry is held by one action.
C11_ActionKeyConflict ==
  /\ [](\A w \in DOMAIN wfActions : UniqueActionKeys(wfActions[w]))
  /\ [][ \A r \in RegisterInputs :
           (registerAction(r[1], r[2]) /\ HasAction(wfActions[r[1]], ActionKey(r[2])))
           => /\ lastCall'.error = "ActionKeyConflict"
              /\ wfActions' = wfActions
              /\ wfConditions' = wfConditions ]_vars

\* registerAction was refused for an object whose key another registered
\* object holds, in a workflow that has a trigger
C11_Witness ==
  /\ lastCall.op = "registerAction" /\ lastCall.error = "ActionKeyConflict"
  /\ \A i \in 1..Len(wfActions[lastCall.wf]) : wfActions[lastCall.wf][i] # lastCall.action
  /\ \E e \in EventKeys : wfConditions[lastCall.wf][e] # <<>>

\* some registered workflow carries the key
Registered(workflowKey) ==
  \E i \in 1..Len(workflows) : WorkflowKey(workflows[i]) = workflowKey

\* C12 (initTask): an initTask(workflowKey, initialData) call with the key of a
\* registered workflow appends one task to the task list and leaves the tasks
\* before it as they were; the new task's id differs from every existing id, its
\* workflowKey is the workflow's key, its state has the workflow's
\* initialStateKey and, as data, the initialData passed; the logs are untouched.
C12_InitTask ==
  [][ \A k \in WorkflowKeys, d \in InitialDataInputs :
        (initTask(k, d) /\ Registered(k))
        => LET new == tasks'[Len(tasks')]
               w == workflows[Min({i \in 1..Len(workflows) : WorkflowKey(workflows[i]) = k})]
           IN  /\ Len(tasks') = Len(tasks) + 1
               /\ SubSeq(tasks', 1, Len(tasks)) = tasks
               /\ \A i \in 1..Len(tasks) : tasks[i].id # new.id
               /\ new.workflowKey = k /\ new.workflowKey = WorkflowKey(w)
               /\ new.state.key = initialStateKey(w)
               /\ d # "undefined" => new.state.data = d
               /\ logs' = logs
               /\ lastCall'.error = "none" ]_vars

\* a second task was created with initial data after a call was logged
C12_Witness ==
  /\ lastCall.op = "initTask" /\ lastCall.error = "none"
  /\ Len(tasks) = 2 /\ tasks[1].id # tasks[2].id
  /\ tasks[2].state.data = "d1" /\ tasks[1].state.data = "{}"
  /\ Len(logs) = 1

\* C13 (initTask, unknown workflow): an initTask call with a key no registered
\* workflow carries throws WorkflowNotFound and changes nothing: the task list,
\* the logs and every workflow's state and initial data stay as they were.
C13_WorkflowNotFound ==
  [][ \A k \in WorkflowKeys, d \in InitialDataInputs :
        (initTask(k, d) /\ ~Registered(k))
        => /\ lastCall'.error = "WorkflowNotFound"
           /\ tasks' = tasks /\ logs' = logs
           /\ wfState' = wfState /\ wfInitialStateData' = wfInitialStateData
           /\ workflows' = workflows ]_vars

\* initTask was refused although a workflow is registered and a task exists
C13_Witness ==
  /\ lastCall.op = "initTask" /\ lastCall.error = "WorkflowNotFound"
  /\ workflows # <<>> /\ Len(tasks) = 1

\* position of a state key on the path of the procurement workflow
ProcRank(key) ==
  CASE key = "rfq_uploaded" -> 0
    [] key = "processing" -> 1
    [] key = "awaiting_role_assignment" -> 2

\* C14 (Procurement scenario): for a task of the rfq_procurement workflow, a
\* rfq_uploaded_event call that found the state rfq_uploaded returns a log with
\* success = true and commits the key processing; a rfq_processed_event call
\* that found the state rfq_uploaded gets the NoApplicableAction result, returns
\* success = false and its commit leaves the task's state as it was; a
\* rfq_processed_event call that found the state processing returns success =
\* true and commits awaiting_role_assignment.  No step moves a task's committed
\* key backwards on rfq_uploaded -> processing -> awaiting_role_assignment, and
\* awaiting_role_assignment is never left.
C14_Procurement ==
  /\ [](settled.pc = "done" =>
          LET k0 == settled.state0.key
              e == settled.event.key
          IN  /\ (e = "rfq_uploaded_event" /\ k0 = "rfq_uploaded")
                 => /\ settled.ret.success
                    /\ settled.ret.action_log_data.action_key = "process_rfq"
                    /\ settled.stateAfter.key = "processing"
              /\ (e = "rfq_processed_event" /\ k0 = "rfq_uploaded")
                 => /\ ~settled.ret.success
                    /\ settled.ret.action_log_data = NoApplicableActionResult(settled.event)
                    /\ settled.stateAfter = settled.stateBefore
              /\ (e = "rfq_processed_event" /\ k0 = "processing")
                 => /\ settled.ret.success
                    /\ settled.ret.action_log_data.action_key = "notify_role_selection"
                    /\ settled.stateAfter.key = "awaiting_role_assignment")
  /\ [][ \A t \in 1..Len(tasks) :
           /\ ProcRank(tasks'[t].state.key) >= ProcRank(tasks[t].state.key)
           /\ tasks'[t].state.data = tasks[t].state.data ]_vars

\* one task saw rfq_processed_event refused, then rfq_uploaded_event and
\* rfq_processed_event accepted, and holds awaiting_role_assignment
C14_Witness ==
  /\ Len(logs) >= 3
  /\ logs[1].task_id = logs[2].task_id /\ logs[2].task_id = logs[3].task_id
  /\ logs[1].event.key = "rfq_processed_event" /\ ~logs[1].success
  /\ logs[2].event.key = "rfq_uploaded_event" /\ logs[2].success
  /\ logs[3].event.key = "rfq_processed_event" /\ logs[3].success
  /\ \E t \in 1..Len(tasks) :
       /\ tasks[t].id = logs[3].task_id
       /\ tasks[t].state = [key |-> "awaiting_role_assignment", data |-> "d1"]

\* C15 (At most one action invocation per event): a call invokes no action or
\* the one action of its selected trigger, once.  The steps that resume a call,
\* also one whose result carries an emitEvent descriptor, start no call,
\* invoke no further action and append at most the one log entry of the call
\* that settles.
C15_OneInvocation ==
  /\ [](\A call \in Observed :
          /\ Len(call.invoked) <= 1
          /\ Len(call.invoked) = 1 => call.invoked[1] = call.trigs[call.sel].action)
  /\ [][ /\ started' = started
            => /\ Len(calls') <= Len(calls)
               /\ Len(logs') <= Len(logs) + 1
               /\ Len(logs') = Len(logs) + 1
                  => /\ Len(calls') = Len(calls) - 1
                     /\ logs'[Len(logs')] = settled'.ret
               /\ \A c \in 1..Len(calls) :
                    Len(calls') = Len(calls) => calls'[c].invoked = calls[c].invoked
         /\ started' # started => (started' = started + 1 /\ logs' = logs) ]_vars

\* the only call made settled with a result that carries the descriptor of the
\* event its own trigger is bound to; one action ran and one entry was logged
C15_Witness ==
  /\ settled.pc = "done" /\ settled.result.success
  /\ settled.result.emitEvent = settled.event.key
  /\ Len(settled.invoked) = 1
  /\ started = 1 /\ calls = <<>> /\ Len(logs) = 1

\* the entries the orchestrator built for results: the logged ones, and the one
\* the last settled call returned
ResultEntries ==
  {logs[i] : i \in 1..Len(logs)} \cup (IF settled.logged THEN {settled.ret} ELSE {})

\* C16 as stated (log success flag): the success flag of an entry built for a
\* result is true exactly when the result's action_key is set.
C16_AsStated ==
  \A entry \in ResultEntries : entry.success = (entry.action_log_data.action_key # NoKey)

\* C16 as amended: the success flag of an entry built for a result is true
\* exactly when the result's action_key is a non-empty string (it is
\* !!action_key: an absent key and the empty string give false), whatever the
\* result's own success flag; it is false for the InvalidState,
\* NoTriggersForEvent, NoApplicableAction and thrown-exception results.
C16_LogSuccess ==
  /\ \A entry \in ResultEntries :
       /\ entry.success = (entry.action_log_data.action_key \notin {NoKey, ""})
       /\ entry.action_log_data \in
            { InvalidStateResult, NoTriggersResult(entry.event),
              NoApplicableActionResult(entry.event) } => ~entry.success
  /\ (settled.logged /\ settled.pending.threw) => ~settled.ret.success

\* a call was logged whose result succeeded with the empty string as action_key
C16_Witness ==
  /\ settled.logged /\ settled.ret.action_log_data.action_key = ""
  /\ settled.ret.action_log_data.success /\ ~settled.ret.success
  /\ logs[Len(logs)] = settled.ret

\* a call that reached Workflow.handleEvent with a state and no trigger for its event
NoTriggers(call) == call.wf # NoKey /\ call.state0 # NoState /\ call.trigs = <<>>

\* C17 (No triggers for the event): a call for an event no trigger is registered
\* under gets the failed NoTriggersForEvent result with cost 0; it evaluates no
\* condition or guard and invokes no action, the workflow's state stays the
\* state the call started with, and the commit leaves the task's state as it
\* was.  The result differs from NoApplicableAction, which only calls with at
\* least one trigger for their event get.
C17_NoTriggers ==
  /\ [](\A call \in Observed :
          /\ NoTriggers(call)
             => /\ call.result = NoTriggersResult(call.event)
                /\ call.result.cost = 0 /\ ~call.result.success
                /\ call.result # NoApplicableActionResult(call.event)
                /\ call.condEvals = <<>> /\ call.guardEvals = <<>>
                /\ call.invoked = <<>> /\ call.sel = 0
          /\ call.result = NoApplicableActionResult(call.event) => Len(call.trigs) >= 1)
  /\ [][ /\ (started' = started + 1 /\ Len(calls') = Len(calls) + 1
               /\ NoTriggers(calls'[Len(calls')]))
            => wfState'[calls'[Len(calls')].wf] = calls'[Len(calls')].state0
         /\ (settled' # settled /\ settled'.pc = "done" /\ NoTriggers(settled'))
            => /\ tasks' = tasks /\ wfState' = wfState
               /\ settled'.ret.action_log_data = NoTriggersResult(settled'.event)
               /\ ~settled'.ret.success ]_vars

\* a call settled for an event without triggers in a workflow that has a
\* trigger for another event
C17_Witness ==
  /\ settled.pc = "done" /\ NoTriggers(settled)
  /\ \E e \in EventKeys : wfConditions[settled.wf][e] # <<>>
  /\ settled.ret.action_log_data.message =
       <<"No triggers registered for event", settled.event.key>>
  /\ tasks[settled.task].state = settled.state0

\* C18 (Interleaving hazard): when a call for one task starts while a call for
\* another task awaits its action on the same Workflow object, the hydration
\* writes the second task's state into the workflow's current-state field the
\* first call is still using; and when a call's action succeeds, its resumption
\* writes its new state into the field whatever call hydrated it last.
C18_InterleavingHazard ==
  [][ \A c \in 1..Len(calls) :
        /\ ( /\ calls[c].pc = "await_invoke"
             /\ started' = started + 1 /\ Len(calls') = Len(calls) + 1
             /\ calls'[Len(calls')].wf = calls[c].wf
             /\ calls'[Len(calls')].task # calls[c].task )
           => wfState'[calls[c].wf] = tasks[calls'[Len(calls')].task].state
        /\ ( /\ calls[c].pc = "await_invoke" /\ Len(calls') = Len(calls)
             /\ calls'[c].pc = "await_workflow"
             /\ ~calls[c].pending.threw /\ calls[c].pending.value.success )
           => wfState'[calls[c].wf] = calls[c].pending.value.new_state ]_vars

\* a call awaits its action while the current-state field of its workflow
\* holds the state of another task, written by a later call that is in flight
C18_Witness ==
  \E c, b \in 1..Len(calls) :
    /\ c < b
    /\ calls[c].pc = "await_invoke"
    /\ calls[b].wf = calls[c].wf /\ calls[b].task # calls[c].task
    /\ wfState[calls[c].wf] = tasks[calls[b].task].state
    /\ wfState[calls[c].wf] # calls[c].state0
    /\ wfState[calls[c].wf] # tasks[calls[c].task].state

\* C19 (Log ordering): the logs change only by the completion of a call, which
\* appends the entry of that call behind the entries logged so far: entries
\* stand in the order in which the calls completed, whatever the order in which
\* they were started, and no step removes, replaces or reorders an entry.
C19_LogOrdering ==
  [][ /\ Len(logs') >= Len(logs)
      /\ SubSeq(logs', 1, Len(logs)) = logs
      /\ logs' # logs
         => /\ Len(logs') = Len(logs) + 1
            /\ Len(calls') = Len(calls) - 1
            /\ settled'.logged /\ logs'[Len(logs')] = settled'.ret
            /\ settled'.ret.task_id = tasks[settled'.task].id
            /\ \E c \in 1..Len(calls) :
                 calls[c].seq = settled'.seq /\ calls[c].pc = "await_workflow"
      /\ (Len(calls') < Len(calls) /\ ~settled'.threw)
         => logs' = Append(logs, settled'.ret) ]_vars

\* two calls for one task were logged, and the entry of the call made first
\* stands behind the entry of the call made second
C19_Witness ==
  /\ started = 2 /\ calls = <<>> /\ Len(logs) = 2
  /\ settled.logged /\ settled.seq = 1
  /\ logs[2] = settled.ret /\ logs[1] # logs[2]
  /\ logs[1].task_id = logs[2].task_id

\* the two runs got the same state, event and triggers in the same order
SameInputs(c1, c2) ==
  /\ c1.state0 = c2.state0 /\ c1.event = c2.event /\ c1.trigs = c2.trigs

\* the run is the last one made on its Workflow object, and has returned
LastReturned(c) ==
  /\ calls[c].pc = "await_workflow"
  /\ \A b \in 1..Len(calls) : calls[b].wf = calls[c].wf => b <= c

Rejected(actionKey) == isFinalStatus \/ actions[actionKey] = NoAction

\* C21, first half: a dispatch call made in a final status, or with an
\* unregistered key, throws, performs no action and leaves status, memory
\* and logs as they were
C21_RejectedUnchanged ==
  [][\A k \in DispActionKeys :
       dispatch(k) /\ Rejected(k) =>
         /\ lastDispatch'.pc = "threw"
         /\ lastDispatch'.action = NoAction
         /\ UNCHANGED <<_status, _memory, _logs, dispatches>>]_vars

\* C21, second half: no step of a dispatch call moves the orchestrator
\* out of a final status
C21_FinalNeverLeft ==
  [][(isFinalStatus /\ \E c \in 1..Len(dispatches) : dispatchResume(c))
       => _status' = _status]_vars

\* C21: a rejected dispatch throws without effect, so a final status is
\* never left by dispatch
C21_Rejection == C21_RejectedUnchanged /\ C21_FinalNeverLeft


\* the status the claim prescribes for a dispatch of actionKey accepted in
\* status s whose action returned the status `returned`
PrescribedStatus(s, actionKey, returned) ==
  IF returned # NoStatus THEN returned
  ELSE IF transitions(s, actionKey) # NoStatus THEN transitions(s, actionKey)
  ELSE s

\* C22: when an accepted dispatch(actionKey) made in status s completes, the
\* status is the one its action returned, else transitions[s][actionKey],
\* else s; the README's start, which returns memory only, goes from idle to
\* running
C22_NextStatus ==
  [][\A c \in 1..Len(dispatches) :
       dispatchResume(c) =>
         LET d == dispatches[c]
         IN  /\ _status' = PrescribedStatus(d.from, d.actionKey, d.result.status)
             /\ (d.action = "readmeStartAction" /\ d.from = "idle")
                  => _status' = "running"]_vars

\* the README's start has been dispatched from idle and has completed
C22_Witness ==
  /\ lastDispatch.pc = "done"
  /\ lastDispatch.action = "readmeStartAction"
  /\ lastDispatch.from = "idle"
  /\ lastDispatch.result.status = NoStatus
  /\ _status = "running"


\* a step that starts a handleEvent call which reaches Workflow.handleEvent
StartsCall == started' = started + 1 /\ Len(calls') = Len(calls) + 1

\* C23 (Resolution is atomic and per-task): a call for task T resolves on
\* T's committed state as of its start (the conditions and guards are the
\* ones that state gives, and the action is invoked with it), what it
\* commits to T is T's state or the new_state its own action returned, and
\* no step puts data of another task into T's state, however the calls on
\* a shared workflow interleave.
C23_PerTask ==
  [][ /\ StartsCall =>
           LET n == calls'[Len(calls')]
               own == tasks[n.task].state
               sync == WorkflowHandleEventSync(own, wfConditions[n.wf], n.event)
           IN  /\ n.state0 = own
               /\ n.sel = sync.sel
               /\ n.condEvals = sync.condEvals /\ n.guardEvals = sync.guardEvals
               /\ n.pc = "await_invoke" =>
                    n.pending \in InvokeOutcomes(n.trigs[n.sel].action, own)
      /\ \A c \in 1..Len(calls) :
           (orchestratorResume(c) /\ ~calls[c].rejected) =>
             LET call == calls[c]
             IN  /\ tasks'[call.task].state \in
                      {tasks[call.task].state, call.result.new_state}
                 /\ \A i \in 1..Len(tasks) :
                      i # call.task => tasks'[i].state = tasks[i].state
                 /\ (call.sel > 0 /\ ~call.pending.threw) =>
                      call.result.new_state = call.pending.value.new_state
      /\ \A i \in 1..Len(tasks) :
           Len(tasks') >= i /\ tasks'[i].state.data = tasks[i].state.data ]_vars

\* a call has committed the new state of its own action to its task while
\* an earlier call for another task, whose state carries other data, was
\* still inside its action on the same workflow
C23_Witness ==
  \E b \in 1..Len(calls) :
    /\ settled.pc = "done" /\ settled.logged
    /\ settled.sel > 0 /\ settled.result.success
    /\ settled.stateAfter = settled.result.new_state
    /\ settled.stateAfter # settled.stateBefore
    /\ tasks[settled.task].state = settled.stateAfter
    /\ calls[b].pc = "await_invoke" /\ calls[b].seq < settled.seq
    /\ calls[b].wf = settled.wf /\ calls[b].task # settled.task
    /\ tasks[calls[b].task].state.data # tasks[settled.task].state.data


\* the entries of the log that record a successful process_rfq on a task
ProcessRfqEntries(taskId) ==
  { i \in 1..Len(logs) :
      /\ logs[i].task_id = taskId /\ logs[i].success
      /\ logs[i].action_log_data.action_key = "process_rfq" }

\* C24 as stated (No lost update on one task): a call that invoked an action
\* commits onto the very state it started from, whatever calls for the same
\* task were in flight with it, and no procurement task has process_rfq
\* invoked and committed twice from rfq_uploaded.
C24_AsStated ==
  /\ [](\A t \in 1..Len(tasks) : Cardinality(ProcessRfqEntries(tasks[t].id)) <= 1)
  /\ [][\A c \in 1..Len(calls) :
          (orchestratorResume(c) /\ calls[c].sel > 0 /\ calls[c].result.success)
            => tasks[calls[c].task].state = calls[c].state0]_vars

\* C24, amended: every call starts from the committed state its task has at
\* that moment; a call started while no other call for its task is in
\* flight starts from the state the last completed call for the task
\* committed, and then process_rfq is not invoked again once it has
\* succeeded on the task.
C24_Serialized ==
  [][StartsCall =>
       LET n == calls'[Len(calls')]
           alone == \A b \in 1..Len(calls) : calls[b].task # n.task
       IN  /\ n.state0 = tasks[n.task].state
           /\ (alone /\ settled.pc = "done" /\ settled.logged /\ settled.task = n.task)
                => n.state0 = settled.stateAfter
           /\ (alone /\ n.sel > 0 /\ n.trigs[n.sel].action = "processRfqAction")
                => ProcessRfqEntries(tasks[n.task].id) = {}]_vars

\* a task had process_rfq committed, and a later rfq_uploaded_event for it,
\* delivered when that call had settled, was refused
C24_Witness ==
  \E i, j \in 1..Len(logs) :
    /\ i < j /\ logs[i].task_id = logs[j].task_id
    /\ i \in ProcessRfqEntries(logs[i].task_id)
    /\ logs[j].event.key = "rfq_uploaded_event" /\ ~logs[j].success
    /\ logs[j].action_log_data = NoApplicableActionResult(logs[j].event)


\* C25 (Independent initial data): the data of the state a task is created
\* with is the initialData argument of that initTask call, and empty when the
\* argument is omitted; data passed to an earlier initTask never shows in it.
C25_IndependentInitialData ==
  [][\A k \in WorkflowKeys, d \in InitialDataInputs :
       (initTask(k, d) /\ Len(tasks') = Len(tasks) + 1) =>
         tasks'[Len(tasks')].state.data = (IF d = "undefined" THEN "{}" ELSE d)]_vars


\* C26 as stated (Log success agrees with the outcome): the entry of a call
\* has success = true exactly when the result's success flag is true; none
\* reports success for a failed action, none failure for a call that changed
\* the state of its task.
C26_AsStated ==
  settled.logged =>
    /\ settled.ret.success = settled.result.success
    /\ ~settled.ret.success => settled.stateAfter = settled.stateBefore

\* the result names its action exactly when it reports success
KeyedBySuccess(result) == Truthy(result.action_key) = result.success

\* C26, amended: the entry's flag agrees with the result's success flag
\* exactly for the results that name their action if and only if they
\* succeeded; the failure results Workflow.handleEvent builds itself are of
\* that kind, are logged as failures and leave the task's state alone, and a
\* call changes the state of its task only if its result reports success.
C26_LogAgreement ==
  settled.logged =>
    /\ (settled.ret.success = settled.result.success) = KeyedBySuccess(settled.result)
    /\ (settled.sel = 0 \/ settled.pending.threw) =>
         /\ KeyedBySuccess(settled.result)
         /\ ~settled.ret.success /\ ~settled.result.success
         /\ settled.stateAfter = settled.stateBefore
    /\ settled.stateAfter # settled.stateBefore => settled.result.success

\* a call whose action named itself and succeeded was logged as a success
\* and changed the state of its task
C26_Witness ==
  /\ settled.logged /\ settled.sel > 0
  /\ Truthy(settled.result.action_key) /\ settled.result.success
  /\ settled.ret.success
  /\ settled.stateAfter # settled.stateBefore
  /\ tasks[settled.task].state = settled.stateAfter


\* the keys of the workflows registered with the orchestrator
RegisteredKeys == {WorkflowKey(workflows[i]) : i \in 1..Len(workflows)}

\* C27 (Task registry invariant): task ids are pairwise distinct and every
\* task's workflowKey is the key of a registered workflow, so no call for an
\* existing task gets the 'workflow not found for task' log; no step removes
\* a task or a workflow or changes a task's id or workflowKey.
C27_TaskRegistry ==
  /\ [](/\ \A i, j \in 1..Len(tasks) : tasks[i].id = tasks[j].id => i = j
        /\ \A i \in 1..Len(tasks) :
             /\ tasks[i].workflowKey \in RegisteredKeys
             /\ getWorkflow(tasks[i].workflowKey) # NoKey
        /\ \A call \in Observed :
             call.task > 0 =>
               /\ call.wf # NoKey
               /\ call.ret # WorkflowNotFoundLog(tasks[call.task], call.event))
  /\ [][/\ Len(tasks') >= Len(tasks)
        /\ \A i \in 1..Len(tasks) :
             /\ tasks'[i].id = tasks[i].id
             /\ tasks'[i].workflowKey = tasks[i].workflowKey
        /\ RegisteredKeys \subseteq RegisteredKeys']_vars

\* two tasks are registered and a call for the second has been logged
C27_Witness ==
  /\ Len(tasks) = 2 /\ tasks[1].id # tasks[2].id
  /\ settled.logged /\ settled.task = 2 /\ settled.taskId = tasks[2].id
  /\ settled.wf = getWorkflow(tasks[2].workflowKey)


\* C28 (Every task has a committed state): the state of every task is
\* defined in every reachable state, also after a successful result without
\* new_state, and no call made through the Orchestrator for an existing
\* task starts without a state or gets the InvalidState result.
C28_DefinedState ==
  /\ \A i \in 1..Len(tasks) : tasks[i].state # NoState
  /\ \A call \in Observed :
       (call.task > 0 /\ call.wf # NoKey) =>
         /\ call.state0 # NoState
         /\ call.result # InvalidStateResult
         /\ call.logged => call.ret.action_log_data # InvalidStateResult

\* a call whose action succeeded without a new_state has settled: the
\* workflow's own state field is unset, the task still has the state it had
C28_Witness ==
  /\ settled.logged /\ settled.sel > 0
  /\ settled.result.success /\ settled.result.new_state = NoState
  /\ wfState[settled.wf] = NoState
  /\ settled.stateAfter = settled.stateBefore
  /\ tasks[settled.task].state = settled.stateBefore
  /\ tasks[settled.task].state # NoState


\* C29 (No current state): Workflow.handleEvent called on a workflow that
\* holds no state returns the failed InvalidState result with cost 0 at
\* once; it evaluates no condition and no guard, invokes no action, and
\* leaves the state unset.
C29_InvalidState ==
  /\ [](\A c \in 1..Len(calls) :
          calls[c].state0 = NoState =>
            /\ calls[c].pc = "await_workflow"
            /\ calls[c].result = InvalidStateResult
            /\ calls[c].result.cost = 0 /\ ~calls[c].result.success
            /\ calls[c].condEvals = <<>> /\ calls[c].guardEvals = <<>>
            /\ calls[c].invoked = <<>> /\ calls[c].sel = 0)
  /\ [][\A w \in WorkflowObjs, e \in Events :
          (workflowHandleEvent(w, e) /\ wfState[w] = NoState) =>
            /\ calls'[Len(calls')].state0 = NoState
            /\ wfState'[w] = NoState]_vars

\* a workflow that has triggers for the event was called without a state
C29_Witness ==
  \E c \in 1..Len(calls) :
    /\ calls[c].state0 = NoState /\ calls[c].event.key = "e1"
    /\ Len(calls[c].trigs) = 2
    /\ calls[c].result = InvalidStateResult
    /\ wfState[calls[c].wf] = NoState

\* C30 (Result of the invocation): when the awaited invocation returns a
\* result with success = true, Workflow.handleEvent puts the result's
\* new_state in place of the workflow's state, whatever that state was and
\* also when the result has no new_state; with success = false the state is
\* kept.  In both cases the call returns the result as it got it.
C30_ResultUnchanged ==
  [][\A c \in 1..Len(calls) :
       (workflowResume(c) /\ ~calls[c].pending.threw) =>
         LET value == calls[c].pending.value
         IN  /\ calls'[c].result = value
             /\ calls'[c].pc = "await_workflow"
             /\ wfState'[calls[c].wf] =
                  (IF value.success THEN value.new_state ELSE wfState[calls[c].wf])
             /\ \A w \in WorkflowObjs \ {calls[c].wf} : wfState'[w] = wfState[w]]_vars

\* a call has returned a successful result without new_state and left its
\* workflow, which had a state, without one
C30_Witness ==
  \E c \in 1..Len(calls) :
    /\ calls[c].pc = "await_workflow" /\ calls[c].sel > 0
    /\ ~calls[c].pending.threw
    /\ calls[c].result = calls[c].pending.value
    /\ calls[c].result.success /\ calls[c].result.new_state = NoState
    /\ calls[c].state0 # NoState
    /\ wfState[calls[c].wf] = NoState


\* the n-th handleEvent call made is in flight
InFlight(n) == \E c \in 1..Len(calls) : calls[c].seq = n

\* no element occurs twice in the sequence
NoRepeat(seq) == \A i, j \in 1..Len(seq) : seq[i] = seq[j] => i = j

\* C31, the part about resolution: a call evaluates the condition and the
\* guard of each trigger of its event at most once and invokes at most one
\* action; nothing is retried.
C31_NoRetry ==
  \A call \in Observed :
    /\ NoRepeat(call.condEvals) /\ NoRepeat(call.guardEvals)
    /\ Len(call.condEvals) <= Len(call.trigs)
    /\ Len(call.guardEvals) <= Len(call.condEvals)
    /\ Len(call.invoked) <= 1

\* C31, the part about progress: a call in flight settles
C31_Settles ==
  \A n \in 1..MaxCalls : InFlight(n) ~> ~InFlight(n)

\* C31 (Termination): every handleEvent call settles, and it settles by
\* returning an InvocationLog; resolution evaluates each trigger at most
\* once and retries nothing.
C31_Termination ==
  /\ [](settled.pc = "done" => (~settled.threw /\ settled.ret # NoLog))
  /\ []C31_NoRetry
  /\ C31_Settles


\* the workflow was registered after another one with the same key
Shadowed(w) ==
  \E i, j \in 1..Len(workflows) :
    i < j /\ workflows[j] = w /\ WorkflowKey(workflows[i]) = WorkflowKey(w)

\* the workflow a key stands for according to the claim: the one registered
\* first under it
FirstRegistered(w, workflowKey) ==
  /\ \E i \in 1..Len(workflows) : workflows[i] = w
  /\ WorkflowKey(w) = workflowKey /\ ~Shadowed(w)

\* C32 (Workflow key shadowing): of two workflows registered under one key
\* the first is the one found: a task is created with its initial state
\* key, a call resolves on its triggers, and the workflow registered later
\* is never hydrated, initialised or called.
C32_Shadowing ==
  /\ [](/\ \A w \in WorkflowObjs :
             Shadowed(w) => wfState[w] = NoState /\ wfInitialStateData[w] = "{}"
        /\ \A call \in Observed :
             call.task > 0 =>
               /\ FirstRegistered(call.wf, tasks[call.task].workflowKey)
               /\ call.trigs = wfConditions[call.wf][call.event.key])
  /\ [][\A k \in WorkflowKeys, d \in InitialDataInputs :
          (initTask(k, d) /\ Len(tasks') = Len(tasks) + 1) =>
            \E w \in WorkflowObjs :
              /\ FirstRegistered(w, k)
              /\ tasks'[Len(tasks')].state.key = initialStateKey(w)
              /\ wfState'[w] = tasks'[Len(tasks')].state]_vars

\* w2 was registered before w1 under the same key: the task started in w2's
\* initial state and its event found no trigger, although w1 has one for it
C32_Witness ==
  /\ workflows = <<"w2", "w1">>
  /\ Shadowed("w1") /\ wfConditions["w1"]["e1"] # <<>>
  /\ settled.logged /\ settled.wf = "w2" /\ settled.event.key = "e1"
  /\ settled.state0.key = initialStateKey("w2")
  /\ settled.result = NoTriggersResult(settled.event)


\* what the persistence callback would receive now
Current == [status |-> _status, memory |-> _memory, logs |-> _logs]

\* a step that completes a dispatch, an updateMemory, an addLog or an
\* assignment to memory
CompletesUpdate ==
  \/ \E c \in 1..Len(dispatches) : dispatchResume(c)
  \/ \E m \in MemoryInputs : setMemory(m) \/ updateMemory(m)
  \/ \E l \in LogInputs : addLog(l)

\* C33 (Persistence): with a persistence callback configured, each
\* completed dispatch, updateMemory, addLog and memory assignment leaves the
\* callback having last received the current status, memory and logs, and
\* from the first invocation on what it last received is always current.
C33_Persistence ==
  /\ []((handlePersistentStorage.configured
           /\ handlePersistentStorage.last # NotPersisted)
          => handlePersistentStorage.last = Current)
  /\ [][(handlePersistentStorage.configured /\ CompletesUpdate)
          => handlePersistentStorage'.last = Current']_vars

\* a dispatch has completed that logged, changed the status and changed the
\* memory, and the callback holds all three
C33_Witness ==
  /\ handlePersistentStorage.configured
  /\ lastDispatch.pc = "done"
  /\ _logs # <<>> /\ _status # initialStatus /\ _memory # initialMemory
  /\ handlePersistentStorage.last = Current


\* C34 as stated (Table conformance): the status a dispatch of actionKey
\* made in status s leaves is s or transitions[s][actionKey], and s when
\* the table has no such entry.
C34_AsStated ==
  [][\A c \in 1..Len(dispatches) :
       dispatchResume(c) =>
         LET d == dispatches[c]
             edge == transitions(d.from, d.actionKey)
         IN  /\ _status' \in {d.from, edge}
             /\ edge = NoStatus => _status' = d.from]_vars

\* C34, amended: a status the action returns is assigned as it is, on or
\* off the table; only when the action returns none does the dispatch
\* follow the table, leaving transitions[s][actionKey], or s when there is
\* no such entry.
C34_TableOrReturned ==
  [][\A c \in 1..Len(dispatches) :
       dispatchResume(c) =>
         LET d == dispatches[c]
             edge == transitions(d.from, d.actionKey)
         IN  /\ d.result.status # NoStatus => _status' = d.result.status
             /\ d.result.status = NoStatus => _status' \in {d.from, edge}
             /\ (d.result.status = NoStatus /\ edge = NoStatus) => _status' = d.from
             /\ (d.result.status = NoStatus /\ edge # NoStatus) => _status' = edge]_vars

\* finish was dispatched from idle, where the table has no entry for it,
\* and the status it returned was assigned
C34_Witness ==
  /\ lastDispatch.pc = "done" /\ lastDispatch.action = "finishAction"
  /\ lastDispatch.from = "idle"
  /\ transitions("idle", "finish") = NoStatus
  /\ lastDispatch.result.status = "done"
  /\ _status = "done"


====
